---- MODULE Spec2Model ----
(***************************************************************************)
(* A model of the social-media analysis pipeline: analyze (Twitter),       *)
(* analyze_instagram, analyze_all_platforms and combine_analysis_results.  *)
(*                                                                         *)
(* Units.  A polarity is an integer number of thousandths (0.5 is 500), a  *)
(* positive_sentiment_percent is an integer number of hundredths (66.67 is *)
(* 6667), an avg_engagement_rate an integer number of ten-thousandths.     *)
(* Values the code keeps unrounded (an engagement rate) are exact          *)
(* fractions [n, d].  An instant is a natural number, the calendar date of *)
(* an instant t is t \div TicksPerDay.                                     *)
(***************************************************************************)
EXTENDS Integers, Sequences, FiniteSets, TLC

\* ---------------------------------------------------------------- bounds
\* posts in the batch of a request for one platform
MaxPosts == 3

\* posts per platform in a request for all platforms
MaxAll == 2

\* posts in a batch that is analysed twice
MaxRepeat == 2

\* posts in a batch long enough to overflow the top-5 and top-10 lists
MaxLong == 6

\* ticks of the wall clock while a request is served
MaxClock == 3

\* instants per calendar day
TicksPerDay == 2

\* ------------------------------------------------------ program constants
TopLocations == 5
TopKeywords == 10
RecentLimit == 5
InfluencerLimit == 5
CombinedRecentLimit == 10

\* ------------------------------------------------------ generic helpers
Take(s, n) == IF Len(s) <= n THEN s ELSE SubSeq(s, 1, n)

Max2(a, b) == IF a >= b THEN a ELSE b

RECURSIVE SumSeq(_)
SumSeq(s) == IF s = <<>> THEN 0 ELSE Head(s) + SumSeq(Tail(s))

\* round(n / d) to the nearest integer, ties to the even one (Python's round)
RoundDiv(n, d) ==
    LET q == n \div d
        r == n % d
    IN  IF 2 * r < d THEN q
        ELSE IF 2 * r > d THEN q + 1
        ELSE IF q % 2 = 0 THEN q ELSE q + 1

\* list.sort(key=..., reverse=True) and sorted(..., reverse=True): stable, so
\* elements with equal keys keep their order.  keys[k] is the key of s[k].
SortDescBy(s, keys) ==
    LET n == Len(s)
        pos(k) == Cardinality({j \in 1..n : keys[j] > keys[k]
                                            \/ (keys[j] = keys[k] /\ j < k)}) + 1
    IN  [p \in 1..n |-> s[CHOOSE k \in 1..n : pos(k) = p]]

\* the position of key in an insertion-ordered dict, 0 when absent
IndexOf(d, key) ==
    IF \E k \in DOMAIN d : d[k].key = key
    THEN CHOOSE k \in DOMAIN d : d[k].key = key
    ELSE 0

\* Counter: counter[key] += n, a new key goes last
CounterAdd(c, key, n) ==
    LET k == IndexOf(c, key)
    IN  IF k = 0 THEN Append(c, [key |-> key, count |-> n])
        ELSE [c EXCEPT ![k].count = @ + n]

RECURSIVE CounterUpdate(_, _)
CounterUpdate(c, words) ==
    IF words = <<>> THEN c
    ELSE CounterUpdate(CounterAdd(c, Head(words), 1), Tail(words))

\* the ranking left whole: what most_common() gives without its argument
MostCommonUncut(c, n) == SortDescBy(c, [k \in DOMAIN c |-> c[k].count])

\* the ranking with the later inserted of two equal counts first
MostCommonLatestFirst(c, n) ==
    Take(SortDescBy(c, [k \in DOMAIN c |-> c[k].count * (Len(c) + 1) + k]), n)

\* Counter.most_common(n): by count, descending, ties in insertion order
MostCommon(c, n) == Take(SortDescBy(c, [k \in DOMAIN c |-> c[k].count]), n)

\* ------------------------------------------------------ values and records
\* a JSON value that may be null: IntV(n) or NullV
IntV(n) == [k |-> "int", v |-> n]

NullV == [k |-> "null", v |-> 0]

\* response.error unset (None)
NoError == ""

\* extract_* returning None
NoCity == <<>>

\* parsed_datetime = None
NoTime == [k |-> "none", t |-> 0, aware |-> FALSE]

\* a datetime: offset-aware or naive
TimeOf(t, aware) == [k |-> "time", t |-> t, aware |-> aware]

Day(t) == t \div TicksPerDay

\* AnalyzeResponse(...)
AnalyzeResponse(total, percent, engagement, reach, trend, locations, keywords, mentions, influencers, error) ==
    [total_mentions |-> total, positive_sentiment_percent |-> percent,
     avg_engagement_rate |-> engagement, estimated_reach |-> reach,
     sentiment_trend |-> trend, top_locations |-> locations,
     top_keywords |-> keywords, recent_mentions |-> mentions,
     top_influencers |-> influencers, error |-> error]

\* an all-zero response that reports the lack of posts as an error
ZeroResponseNoPosts(error) ==
    AnalyzeResponse(0, 0, 0, 0, <<>>, <<>>, <<>>, <<>>, <<>>,
                    IF error = "" THEN "No posts found" ELSE error)

\* the all-zero response of the early returns, error unset or set
ZeroResponse(error) == AnalyzeResponse(0, 0, 0, 0, <<>>, <<>>, <<>>, <<>>, <<>>, error)

\* no response: the call raised instead of returning
NoResponse == [total_mentions |-> -1]

\* ------------------------------------------------------ sentiment scorer
\* TextBlob's lexicon, cut to the words of the model (thousandths)
Lexicon(w) ==
    CASE w = "love" -> 500
      [] w = "nice" -> 300
      [] w = "poor" -> -400
      [] w = "okay" -> 50
      [] OTHER -> 0

\* TextBlob(text).sentiment.polarity: the mean of the polar words, 0 if none
Polarity(text) ==
    LET polar == SelectSeq(text, LAMBDA tok : tok.kind = "word" /\ Lexicon(tok.w) # 0)
        vals == [k \in DOMAIN polar |-> Lexicon(polar[k].w)]
    IN  IF polar = <<>> THEN 0 ELSE RoundDiv(SumSeq(vals), Len(polar))

get_sentiment_label_inclusive(polarity) ==
    IF polarity >= 100 THEN "positive"
    ELSE IF polarity <= -100 THEN "negative"
    ELSE "neutral"

\* analyzer.py lines 238-245, on thousandths
get_sentiment_label(polarity) ==
    IF polarity > 100 THEN "positive"
    ELSE IF polarity < -100 THEN "negative"
    ELSE "neutral"

\* instagram_analyzer.py lines 344-351: the module's own get_sentiment_label
instagram_get_sentiment_label(polarity) ==
    IF polarity > 100 THEN "positive"
    ELSE IF polarity < -100 THEN "negative"
    ELSE "neutral"

\* ------------------------------------------------------ location extractors
\* A location string is a sequence of characters. An ASCII character is the
\* string of length 1 made of it; the characters outside ASCII are named.
Bullet == "bullet"

MiddleDot == "middot"

Pin == "pin"

Uppers ==
    << "A", "B", "C", "D", "E", "F", "G", "H", "I", "J", "K", "L", "M", "N", "O", "P", "Q",
       "R", "S", "T", "U", "V", "W", "X", "Y", "Z" >>

Lowers ==
    << "a", "b", "c", "d", "e", "f", "g", "h", "i", "j", "k", "l", "m", "n", "o", "p", "q",
       "r", "s", "t", "u", "v", "w", "x", "y", "z" >>

Digits == {"0", "1", "2", "3", "4", "5", "6", "7", "8", "9"}

UpperSet == {Uppers[i] : i \in DOMAIN Uppers}

LowerSet == {Lowers[i] : i \in DOMAIN Lowers}

IsLetter(c) == c \in UpperSet \/ c \in LowerSet

\* \w and \s of the regular expressions, on the characters of the model
IsWordChar(c) == IsLetter(c) \/ c \in Digits \/ c = "_"

IsSpace(c) == c = " "

\* str.lower() and str.upper() on one character
LowerOf == [c \in UpperSet |-> Lowers[CHOOSE i \in DOMAIN Uppers : Uppers[i] = c]]

UpperOf == [c \in LowerSet |-> Uppers[CHOOSE i \in DOMAIN Lowers : Lowers[i] = c]]

Lower(c) == IF c \in UpperSet THEN LowerOf[c] ELSE c

Upper(c) == IF c \in LowerSet THEN UpperOf[c] ELSE c

LowerStr(s) == [i \in DOMAIN s |-> Lower(s[i])]

\* str.strip()
RECURSIVE LStrip(_)
LStrip(s) == IF s # <<>> /\ IsSpace(Head(s)) THEN LStrip(Tail(s)) ELSE s

RECURSIVE RStrip(_)
RStrip(s) ==
    IF s # <<>> /\ IsSpace(s[Len(s)]) THEN RStrip(SubSeq(s, 1, Len(s) - 1)) ELSE s

Strip(s) == RStrip(LStrip(s))

\* re.sub(r'^[^\w\s]+', '', s): the leading emojis and symbols go
RECURSIVE DropLeadingSymbols(_)
DropLeadingSymbols(s) ==
    IF s # <<>> /\ ~IsWordChar(Head(s)) /\ ~IsSpace(Head(s))
    THEN DropLeadingSymbols(Tail(s))
    ELSE s

\* str.startswith
StartsWith(s, p) == Len(s) >= Len(p) /\ SubSeq(s, 1, Len(p)) = p

\* the loop over prefixes_to_remove: the first prefix of the list that
\* location_lower starts with is cut off location, and the rest stripped
RECURSIVE DropPrefix(_, _, _)
DropPrefix(location, location_lower, prefixes) ==
    IF prefixes = <<>> THEN location
    ELSE IF StartsWith(location_lower, Head(prefixes))
         THEN Strip(SubSeq(location, Len(Head(prefixes)) + 1, Len(location)))
         ELSE DropPrefix(location, location_lower, Tail(prefixes))

\* sep in s, and s.split(sep)[0]
Contains(s, c) == \E i \in DOMAIN s : s[i] = c

BeforeFirst(s, c) ==
    SubSeq(s, 1, (CHOOSE i \in DOMAIN s : s[i] = c /\ \A j \in 1..(i - 1) : s[j] # c) - 1)

\* re.sub(r'[^\w\s]', '', s)
RemovePunctuation(s) == SelectSeq(s, LAMBDA c : IsWordChar(c) \/ IsSpace(c))

\* str.isdigit()
IsDigitStr(s) == s # <<>> /\ \A i \in DOMAIN s : s[i] \in Digits

\* str.title(): a letter is upper-cased after a character that is no letter
\* (and at the start), lower-cased after a letter
Title(s) ==
    [i \in DOMAIN s |->
        IF IsLetter(s[i])
        THEN IF i = 1 \/ ~IsLetter(s[i - 1]) THEN Upper(s[i]) ELSE Lower(s[i])
        ELSE s[i]]

\* lines 168-169 and 180-181: city_candidate.split(' ', 1)[1] when the
\* candidate starts with 'kota ' or 'kabupaten '
AfterFirstSpace(s) == SubSeq(s, Len(BeforeFirst(s, " ")) + 2, Len(s))

DropKota(s) ==
    IF StartsWith(s, <<"k", "o", "t", "a", " ">>) \/ StartsWith(s, <<"k", "a", "b", "u", "p", "a", "t", "e", "n", " ">>)
    THEN AfterFirstSpace(s)
    ELSE s

\* lines 99-103
IndonesianPrefixes ==
    << <<"t", "i", "n", "g", "g", "a", "l", " ", "d", "i">>,
       <<"d", "o", "m", "i", "s", "i", "l", "i">>,
       <<"a", "s", "a", "l">>,
       <<"d", "a", "r", "i">>,
       <<"d", "i">>,
       <<"k", "o", "t", "a">>,
       <<"k", "a", "b", "u", "p", "a", "t", "e", "n">>,
       <<"l", "i", "v", "i", "n", "g", " ", "i", "n">>,
       <<"b", "a", "s", "e", "d", " ", "i", "n">>,
       <<"f", "r", "o", "m">>,
       <<"i", "n">>,
       <<"a", "t">>,
       <<"c", "u", "r", "r", "e", "n", "t", "l", "y", " ", "i", "n">>,
       <<"l", "o", "c", "a", "t", "e", "d", " ", "i", "n">>,
       <<"r", "e", "s", "i", "d", "i", "n", "g", " ", "i", "n">>,
       <<"h", "o", "m", "e", ":">>,
       <<"l", "o", "c", "a", "t", "i", "o", "n", ":">>,
       <<"h", "e", "r", "e", ":">> >>

\* lines 206-209
GenericPrefixes ==
    << <<"l", "i", "v", "i", "n", "g", " ", "i", "n">>,
       <<"b", "a", "s", "e", "d", " ", "i", "n">>,
       <<"f", "r", "o", "m">>,
       <<"i", "n">>,
       <<"a", "t">>,
       <<"c", "u", "r", "r", "e", "n", "t", "l", "y", " ", "i", "n">>,
       <<"l", "o", "c", "a", "t", "e", "d", " ", "i", "n">>,
       <<"r", "e", "s", "i", "d", "i", "n", "g", " ", "i", "n">>,
       <<"h", "o", "m", "e", ":">>,
       <<"l", "o", "c", "a", "t", "i", "o", "n", ":">>,
       <<"h", "e", "r", "e", ":">> >>

\* lines 112-145: city_aliases
city_aliases ==
    << [key |-> <<"d", "k", "i", " ", "j", "a", "k", "a", "r", "t", "a">>,
        city |-> <<"J", "a", "k", "a", "r", "t", "a">>],
       [key |-> <<"j", "a", "k", "a", "r", "t", "a", " ", "p", "u", "s", "a", "t">>,
        city |-> <<"J", "a", "k", "a", "r", "t", "a">>],
       [key |-> <<"j", "a", "k", "a", "r", "t", "a", " ", "s", "e", "l", "a", "t", "a", "n">>,
        city |-> <<"J", "a", "k", "a", "r", "t", "a">>],
       [key |-> <<"j", "a", "k", "a", "r", "t", "a", " ", "u", "t", "a", "r", "a">>,
        city |-> <<"J", "a", "k", "a", "r", "t", "a">>],
       [key |-> <<"j", "a", "k", "a", "r", "t", "a", " ", "b", "a", "r", "a", "t">>,
        city |-> <<"J", "a", "k", "a", "r", "t", "a">>],
       [key |-> <<"j", "a", "k", "a", "r", "t", "a", " ", "t", "i", "m", "u", "r">>,
        city |-> <<"J", "a", "k", "a", "r", "t", "a">>],
       [key |-> <<"j", "o", "g", "j", "a">>,
        city |-> <<"Y", "o", "g", "y", "a", "k", "a", "r", "t", "a">>],
       [key |-> <<"y", "o", "g", "y", "a">>,
        city |-> <<"Y", "o", "g", "y", "a", "k", "a", "r", "t", "a">>],
       [key |-> <<"j", "o", "g", "j", "a", "k", "a", "r", "t", "a">>,
        city |-> <<"Y", "o", "g", "y", "a", "k", "a", "r", "t", "a">>],
       [key |-> <<"b", "a", "n", "d", "u", "n", "g", " ", "r", "a", "y", "a">>,
        city |-> <<"B", "a", "n", "d", "u", "n", "g">>],
       [key |-> <<"k", "o", "t", "a", " ", "b", "a", "n", "d", "u", "n", "g">>,
        city |-> <<"B", "a", "n", "d", "u", "n", "g">>],
       [key |-> <<"s", "o", "l", "o">>,
        city |-> <<"S", "u", "r", "a", "k", "a", "r", "t", "a">>],
       [key |-> <<"s", "e", "m", "a", "r", "a", "n", "g">>,
        city |-> <<"S", "e", "m", "a", "r", "a", "n", "g">>],
       [key |-> <<"s", "u", "r", "a", "b", "a", "y", "a">>,
        city |-> <<"S", "u", "r", "a", "b", "a", "y", "a">>],
       [key |-> <<"m", "e", "d", "a", "n">>,
        city |-> <<"M", "e", "d", "a", "n">>],
       [key |-> <<"p", "a", "l", "e", "m", "b", "a", "n", "g">>,
        city |-> <<"P", "a", "l", "e", "m", "b", "a", "n", "g">>],
       [key |-> <<"m", "a", "k", "a", "s", "s", "a", "r">>,
        city |-> <<"M", "a", "k", "a", "s", "s", "a", "r">>],
       [key |-> <<"d", "e", "n", "p", "a", "s", "a", "r">>,
        city |-> <<"D", "e", "n", "p", "a", "s", "a", "r">>],
       [key |-> <<"b", "a", "l", "i">>,
        city |-> <<"D", "e", "n", "p", "a", "s", "a", "r">>],
       [key |-> <<"m", "a", "l", "a", "n", "g">>,
        city |-> <<"M", "a", "l", "a", "n", "g">>],
       [key |-> <<"b", "o", "g", "o", "r">>,
        city |-> <<"B", "o", "g", "o", "r">>],
       [key |-> <<"t", "a", "n", "g", "e", "r", "a", "n", "g">>,
        city |-> <<"T", "a", "n", "g", "e", "r", "a", "n", "g">>],
       [key |-> <<"b", "e", "k", "a", "s", "i">>,
        city |-> <<"B", "e", "k", "a", "s", "i">>],
       [key |-> <<"d", "e", "p", "o", "k">>,
        city |-> <<"D", "e", "p", "o", "k">>],
       [key |-> <<"p", "o", "n", "t", "i", "a", "n", "a", "k">>,
        city |-> <<"P", "o", "n", "t", "i", "a", "n", "a", "k">>],
       [key |-> <<"b", "a", "l", "i", "k", "p", "a", "p", "a", "n">>,
        city |-> <<"B", "a", "l", "i", "k", "p", "a", "p", "a", "n">>],
       [key |-> <<"b", "a", "n", "j", "a", "r", "m", "a", "s", "i", "n">>,
        city |-> <<"B", "a", "n", "j", "a", "r", "m", "a", "s", "i", "n">>],
       [key |-> <<"m", "a", "n", "a", "d", "o">>,
        city |-> <<"M", "a", "n", "a", "d", "o">>],
       [key |-> <<"p", "e", "k", "a", "n", "b", "a", "r", "u">>,
        city |-> <<"P", "e", "k", "a", "n", "b", "a", "r", "u">>],
       [key |-> <<"p", "a", "d", "a", "n", "g">>,
        city |-> <<"P", "a", "d", "a", "n", "g">>],
       [key |-> <<"b", "a", "t", "a", "m">>,
        city |-> <<"B", "a", "t", "a", "m">>],
       [key |-> <<"s", "a", "m", "a", "r", "i", "n", "d", "a">>,
        city |-> <<"S", "a", "m", "a", "r", "i", "n", "d", "a">>] >>

HasAlias(s) == \E i \in DOMAIN city_aliases : city_aliases[i].key = s

AliasOf(s) == city_aliases[CHOOSE i \in DOMAIN city_aliases : city_aliases[i].key = s].city

\* lines 153 and 218
Separators == <<",", "|", "-", Bullet, MiddleDot, "/">>

\* lines 155-170: the loop over the separators, from the first of seps on
RECURSIVE IndonesianSegment(_, _)
IndonesianSegment(location, seps) ==
    IF seps = <<>> THEN NoCity
    ELSE IF ~Contains(location, Head(seps)) THEN IndonesianSegment(location, Tail(seps))
    ELSE LET first_part == LowerStr(Strip(BeforeFirst(location, Head(seps))))
             city_candidate == Strip(RemovePunctuation(first_part))
         IN  IF HasAlias(first_part) THEN AliasOf(first_part)
             ELSE IF Len(city_candidate) > 2 /\ ~IsDigitStr(city_candidate)
                  THEN Title(DropKota(city_candidate))
                  ELSE IndonesianSegment(location, Tail(seps))

\* lines 79-184; None is NoCity
extract_indonesian_city(location_string) ==
    IF Strip(location_string) = <<>> THEN NoCity
    ELSE LET cleaned == Strip(DropLeadingSymbols(Strip(location_string)))
             location == DropPrefix(cleaned, LowerStr(cleaned), IndonesianPrefixes)
             location_clean == Strip(LowerStr(location))
             segment == IndonesianSegment(location, Separators)
             city_candidate == LowerStr(Strip(RemovePunctuation(location)))
         IN  IF HasAlias(location_clean) THEN AliasOf(location_clean)
             ELSE IF segment # NoCity THEN segment
             ELSE IF Len(city_candidate) > 2 /\ ~IsDigitStr(city_candidate)
                  THEN Title(DropKota(city_candidate))
                  ELSE NoCity

\* lines 220-228: the loop over the separators
RECURSIVE GenericSegment(_, _)
GenericSegment(location, seps) ==
    IF seps = <<>> THEN NoCity
    ELSE IF ~Contains(location, Head(seps)) THEN GenericSegment(location, Tail(seps))
    ELSE LET first_part == Strip(BeforeFirst(location, Head(seps)))
             city_candidate == Strip(RemovePunctuation(first_part))
         IN  IF first_part # <<>> /\ Len(city_candidate) > 1 /\ ~IsDigitStr(city_candidate)
             THEN Title(city_candidate)
             ELSE GenericSegment(location, Tail(seps))

\* lines 186-235; None is NoCity
extract_city_name(location_string) ==
    IF Strip(location_string) = <<>> THEN NoCity
    ELSE LET cleaned == Strip(DropLeadingSymbols(Strip(location_string)))
             location == DropPrefix(cleaned, LowerStr(cleaned), GenericPrefixes)
             segment == GenericSegment(location, Separators)
             city_candidate == Strip(RemovePunctuation(location))
         IN  IF segment # NoCity THEN segment
             ELSE IF Len(city_candidate) > 1 /\ ~IsDigitStr(city_candidate)
                  THEN Title(city_candidate)
                  ELSE NoCity

\* lines 357-365: the author's profile location, Indonesian extractor first
ProfileCity(location) ==
    IF Strip(location) = <<>> THEN NoCity
    ELSE LET city_name == extract_indonesian_city(location)
         IN  IF city_name # NoCity THEN city_name ELSE extract_city_name(location)

\* lines 368-390: the city of a geo-tagged tweet; place is the place record
GeoCity(place) ==
    IF place.country \in {"Indonesia", "indonesia", "Republic of Indonesia"}
    THEN extract_indonesian_city(place.full_name)
    ELSE extract_city_name(place.full_name)

\* ------------------------------------------------------ keywords (Twitter)
TwitterStopwords ==
    {"rt", "the", "and", "or", "in", "on", "at", "to", "for", "of", "with", "by"}

\* A text is a sequence of whitespace-separated tokens [kind, w]: a "word" w, a
\* "number" w, a "hashtag" #w, a "mention" @w, a "url" http://w.
\* re.sub(r'@\w+|https?://\S+', '', text).split(): mentions and URLs vanish
RemoveMentionsAndUrls(text) ==
    SelectSeq(text, LAMBDA tok : tok.kind \notin {"mention", "url"})

\* re.sub(r'[^\w]', '', word.lower()): the '#' of a hashtag is dropped
CleanWord(tok) == tok.w

\* lines 421-424
KeepTwitterWord(tok) ==
    /\ Len(CleanWord(tok)) >= 2
    /\ tok.kind # "number"
    /\ CleanWord(tok) \notin TwitterStopwords

\* lines 412-425: the words a tweet adds to keywords_counter
TwitterWords(text) ==
    LET kept == SelectSeq(RemoveMentionsAndUrls(text), KeepTwitterWord)
    IN  [k \in DOMAIN kept |-> CleanWord(kept[k])]

\* ------------------------------------------------------ the tallies of a run
\* lines 284-292 (analyze) and 128-136 (analyze_instagram).  The dicts keep
\* their insertion order: each is a sequence of entries with a key.
EmptyTallies ==
    [positive_count |-> 0, trend |-> <<>>, engagements |-> <<>>, reach_set |-> {},
     city_counter |-> <<>>, keywords_counter |-> <<>>, recent |-> <<>>,
     user_sentiments |-> <<>>]

\* trend[date][0] += polarity; trend[date][1] += 1
TrendAdd(acc, date, polarity) ==
    LET k == IndexOf(acc.trend, date)
    IN  IF k = 0
        THEN [acc EXCEPT !.trend = Append(@, [key |-> date, sum |-> polarity, count |-> 1])]
        ELSE [acc EXCEPT !.trend[k].sum = @ + polarity, !.trend[k].count = @ + 1]

\* city_counter[city] += 1 when the extractor found a city
CityAdd(acc, city) ==
    IF city = NoCity THEN acc
    ELSE [acc EXCEPT !.city_counter = CounterAdd(@, city, 1)]

\* the outcome of one iteration of the per-post loop: the tallies after it, and
\* whether it ended in the except clause
Ok(acc) == [acc |-> acc, raised |-> FALSE]

Raised(acc) == [acc |-> acc, raised |-> TRUE]

\* exact fractions n / d with d > 0, in lowest terms
RECURSIVE Gcd(_, _)
Gcd(a, b) == IF b = 0 THEN a ELSE Gcd(b, a % b)

Abs(n) == IF n < 0 THEN -n ELSE n

Frac(n, d) ==
    LET g == Gcd(Abs(n), d)
    IN  [n |-> n \div g, d |-> d \div g]

RECURSIVE SumFrac(_)
SumFrac(s) ==
    IF s = <<>> THEN Frac(0, 1)
    ELSE LET r == SumFrac(Tail(s))
         IN  Frac(Head(s).n * r.d + r.n * Head(s).d, Head(s).d * r.d)

\* round(sum(engagements) / len(engagements), 4), 0 when there are none
AvgEngagement(engagements) ==
    IF engagements = <<>> THEN 0
    ELSE LET sum == SumFrac(engagements)
         IN  RoundDiv(sum.n * 10000, sum.d * Len(engagements))

\* the percentage cut to 2 decimals, not rounded
SentimentPercentCut(positive_count, total) ==
    IF total > 0 THEN (positive_count * 10000) \div total ELSE 0

\* round(positive_count / total_mentions * 100, 2), 0 when total is 0
SentimentPercent(positive_count, total) ==
    IF total > 0 THEN RoundDiv(positive_count * 10000, total) ELSE 0

\* lines 437-441: sentiment_trend[date] = round(sum / count, 3).  A trend value
\* is kept as a fraction of thousandths: combine_analysis_results halves sums
\* of them without rounding.
SentimentTrend(trend) ==
    LET kept == SelectSeq(trend, LAMBDA e : e.count > 0)
    IN  [k \in DOMAIN kept |-> [key |-> kept[k].key,
                                value |-> Frac(RoundDiv(kept[k].sum, kept[k].count), 1)]]

\* lines 443-453
TopLocationsOf(city_counter) ==
    LET top == MostCommon(city_counter, TopLocations)
    IN  [k \in DOMAIN top |-> [location_name |-> top[k].key,
                               total_mentions |-> top[k].count]]

TopKeywordsOf(keywords_counter) ==
    LET top == MostCommon(keywords_counter, TopKeywords)
    IN  [k \in DOMAIN top |-> [text |-> top[k].key, mentions |-> top[k].count]]

\* list.sort(key=lambda x: x.time, reverse=True) raises TypeError when it has
\* to compare an offset-aware datetime with a naive one
TimesComparable(mentions) ==
    \A a, b \in DOMAIN mentions : mentions[a].time.aware = mentions[b].time.aware

SortByTime(mentions) ==
    SortDescBy(mentions, [k \in DOMAIN mentions |-> mentions[k].time.t])

\* ------------------------------------------------------ analyze (Twitter)
\* A response of the API: [error, data_kind, data, users, places]; error = NoError
\* when the request succeeded; data_kind says whether "data" is a list of tweets
\* ("list"), missing ("absent": data.get("data", []) is []) or null.  A tweet: [isdict, text, author_id,
\* created_at, likes, retweets, replies, place_id]; created_at is [k, t, tz]
\* with k "absent", "iso" (an ISO-8601 string of instant t whose suffix tz is
\* "", "Z", "+" (+hh:mm) or "-" (-hh:mm)), "garbage" (a string fromisoformat
\* rejects), "number" (a POSIX timestamp) or "other" (any other truthy value).
\* The location strings of the batches below.
Chars_JakartaIndonesia ==
    <<"J", "a", "k", "a", "r", "t", "a", ",", " ", "I", "n", "d", "o", "n", "e", "s", "i", "a">>

Chars_KotaBandung ==
    <<"K", "o", "t", "a", " ", "B", "a", "n", "d", "u", "n", "g", ",", " ", "J", "a", "w", "a", " ", "B", "a", "r", "a", "t">>

Chars_jogja == <<"j", "o", "g", "j", "a">>

Chars_Bali == <<"B", "a", "l", "i">>

Chars_Jakarta == <<"J", "a", "k", "a", "r", "t", "a">>

\* A user of includes.users: [hasid, id, hasname, username, followers, location].

\* fetch_recent_tweets, lines 60-77: the parsed JSON, or an error; a null "data"
\* makes len(json_response.get('data', [])) raise inside the function's try,
\* which returns the error of its last except clause
fetch_recent_tweets(response) ==
    IF response.error = NoError /\ response.data_kind = "null"
    THEN [response EXCEPT !.error = "Unexpected error"]
    ELSE response

\* line 266: {u["id"]: u for u in users} raises KeyError on a user without id
UsersHaveIds(users) == \A k \in DOMAIN users : users[k].hasid

\* line 266: the dict, a later user of the same id replacing an earlier one
UsersDict(users) ==
    [id \in {users[k].id : k \in DOMAIN users} |->
        users[CHOOSE k \in DOMAIN users :
                /\ users[k].id = id
                /\ \A j \in DOMAIN users : users[j].id = id => j <= k]]

\* line 267
PlacesDict(places) ==
    [id \in {places[k].id : k \in DOMAIN places} |->
        places[CHOOSE k \in DOMAIN places :
                /\ places[k].id = id
                /\ \A j \in DOMAIN places : places[j].id = id => j <= k]]

\* line 318: datetime.fromisoformat(created_at.rstrip("Z")): only the Z is
\* dropped, so a string with a UTC offset parses to an offset-aware datetime
ParseCreatedAt(ca) == TimeOf(ca.t, ca.tz \in {"+", "-"})

\* f"@{author.get('username', 'unknown')}"
TwitterUsername(author) ==
    "@" \o (IF author.hasname THEN author.username ELSE "unknown")

\* lines 336-338 without line 338: the polarity of a known author is appended
\* and tweet_count left as it was
UserSentimentAddUncounted(acc, key, polarity, followers) ==
    LET k == IndexOf(acc.user_sentiments, key)
    IN  IF k = 0
        THEN [acc EXCEPT !.user_sentiments =
                Append(@, [key |-> key, sentiments |-> <<polarity>>,
                           followers |-> followers, count |-> 1])]
        ELSE [acc EXCEPT !.user_sentiments[k].sentiments = Append(@, polarity),
                         !.user_sentiments[k].followers = followers]

\* lines 336-338
UserSentimentAdd(acc, key, polarity, followers) ==
    LET k == IndexOf(acc.user_sentiments, key)
    IN  IF k = 0
        THEN [acc EXCEPT !.user_sentiments =
                Append(@, [key |-> key, sentiments |-> <<polarity>>,
                           followers |-> followers, count |-> 1])]
        ELSE [acc EXCEPT !.user_sentiments[k].sentiments = Append(@, polarity),
                         !.user_sentiments[k].followers = followers,
                         !.user_sentiments[k].count = @ + 1]

\* lines 347-351
TwitterEngagement(t, followers) ==
    IF followers > 0
    THEN Frac((t.likes + t.retweets + t.replies) * 100, followers)
    ELSE Frac(t.likes + t.retweets + t.replies, 1)

\* lines 401-408 and 241-248
Tweet(platform, text, time, username, sentiment, score) ==
    [platform |-> platform, text |-> text, time |-> time, username |-> username,
     sentiment |-> sentiment, sentiment_score |-> score]

\* lines 356-393: the cities one tweet adds to city_counter
TweetCities(acc, t, hasAuthor, author, places) ==
    LET a1 == IF hasAuthor THEN CityAdd(acc, ProfileCity(author.location)) ELSE acc
    IN  IF t.place_id # "" /\ t.place_id \in DOMAIN places
        THEN CityAdd(a1, GeoCity(places[t.place_id]))
        ELSE a1

\* lines 295-431: one iteration of the loop over the tweets; users and places
\* are the dicts of lines 266-267, now is what datetime.now() returns
ProcessTweet(acc, t, users, places, now) ==
    IF ~t.isdict THEN Raised(acc)
    ELSE
    LET polarity == Polarity(t.text)
        a1 == [acc EXCEPT !.positive_count = IF polarity > 0 THEN @ + 1 ELSE @]
        ca == t.created_at
        parsed == IF ca.k = "iso" THEN ParseCreatedAt(ca) ELSE NoTime
        a2 == CASE ca.k = "iso" -> TrendAdd(a1, Day(parsed.t), polarity)
                [] ca.k = "garbage" -> TrendAdd(a1, Day(now), polarity)
                [] OTHER -> a1
        hasAuthor == t.author_id \in DOMAIN users
        author == users[t.author_id]
        username == IF hasAuthor THEN TwitterUsername(author) ELSE ""
        a3 == IF hasAuthor
              THEN UserSentimentAdd(a2, t.author_id, polarity, author.followers)
              ELSE a2
        a4 == IF hasAuthor
              THEN [a3 EXCEPT
                      !.engagements = Append(@, TwitterEngagement(t, author.followers.v)),
                      !.reach_set = @ \cup {t.author_id}]
              ELSE a3
        a6 == TweetCities(a4, t, hasAuthor, author, places)
        time == IF parsed = NoTime THEN TimeOf(now, FALSE) ELSE parsed
        a7 == IF username # ""
              THEN [a6 EXCEPT !.recent =
                      Append(@, Tweet("twitter", t.text, time, username,
                                      get_sentiment_label(polarity), polarity))]
              ELSE a6
        a8 == [a7 EXCEPT !.keywords_counter = CounterUpdate(@, TwitterWords(t.text))]
    IN  IF ca.k \in {"number", "other"} THEN Raised(a1)
        ELSE IF hasAuthor /\ author.followers = NullV THEN Raised(a3)
        ELSE Ok(a8)

\* get_sentiment_label(sum(sentiments) / len(sentiments)), on the unrounded mean
MeanLabel(sentiments) ==
    IF SumSeq(sentiments) > 100 * Len(sentiments) THEN "positive"
    ELSE IF SumSeq(sentiments) < -100 * Len(sentiments) THEN "negative"
    ELSE "neutral"

\* round(avg_sentiment, 3)
MeanScore(sentiments) == RoundDiv(SumSeq(sentiments), Len(sentiments))

\* lines 455-474, before the sort: User(...) of every author with tweets
TwitterInfluencers(user_sentiments, users) ==
    LET kept == SelectSeq(user_sentiments,
                          LAMBDA e : e.count > 0 /\ e.key \in DOMAIN users)
    IN  [k \in DOMAIN kept |->
            [username |-> TwitterUsername(users[kept[k].key]),
             followers |-> kept[k].followers.v,
             sentiment |-> MeanLabel(kept[k].sentiments),
             sentiment_score |-> MeanScore(kept[k].sentiments),
             total_tweets |-> kept[k].count]]

\* User(followers=None) fails pydantic's validation of followers: int
InfluencersValid(user_sentiments) ==
    \A k \in DOMAIN user_sentiments :
        user_sentiments[k].count > 0 => user_sentiments[k].followers # NullV

\* lines 473-474
SortInfluencersTwitter(influencers) ==
    Take(SortDescBy(influencers, [k \in DOMAIN influencers |-> influencers[k].followers]),
         InfluencerLimit)

\* lines 433-490: [raised, response]
FinalizeTwitter(acc, total, users) ==
    IF ~InfluencersValid(acc.user_sentiments) \/ ~TimesComparable(acc.recent)
    THEN [raised |-> TRUE, response |-> NoResponse]
    ELSE [raised |-> FALSE,
          response |->
            AnalyzeResponse(total,
                            SentimentPercent(acc.positive_count, total),
                            AvgEngagement(acc.engagements),
                            Cardinality(acc.reach_set),
                            SentimentTrend(acc.trend),
                            TopLocationsOf(acc.city_counter),
                            TopKeywordsOf(acc.keywords_counter),
                            Take(SortByTime(acc.recent), RecentLimit),
                            SortInfluencersTwitter(TwitterInfluencers(acc.user_sentiments, users)),
                            NoError)]

\* ------------------------------------------------------ analyze_instagram
\* A fetched response: [error, kind, posts, items].  kind "dict": a JSON object
\* whose "data" (or "items", "posts") is posts; kind "list": a JSON array of
\* items, each a hashtag object [isdict TRUE, top_null, topPosts, latestPosts]
\* or anything else (isdict FALSE).  A post: [isdict, caption, username,
\* owner_id, timestamp, likes, comments, reshares, location, hashtags,
\* hashtags_null]; likes is IntV(n), or StrV for a count that came as a
\* string; hashtags_null says that "hashtags" is null, not a list.
StrV == [k |-> "str", v |-> 0]

\* what stands in the list of posts for an array item that is no object
NotAPost ==
    [isdict |-> FALSE, caption |-> <<>>, username |-> "", owner_id |-> "",
     timestamp |-> [k |-> "absent", t |-> 0, tz |-> ""], likes |-> IntV(0),
     comments |-> 0, reshares |-> 0, location |-> <<>>, hashtags |-> <<>>,
     hashtags_null |-> FALSE]

\* lines 102-107
RECURSIVE ItemsPosts(_)
ItemsPosts(items) ==
    IF items = <<>> THEN <<>>
    ELSE LET item == Head(items)
         IN  (IF item.isdict THEN item.topPosts \o item.latestPosts ELSE <<NotAPost>>)
             \o ItemsPosts(Tail(items))

\* posts.extend(item.get("topPosts", [])) raises TypeError when topPosts is null
ItemsExtend(items) == \A k \in DOMAIN items : items[k].isdict => ~items[k].top_null

\* lines 75-110: the list of posts of a response without error
InstagramPosts(data) ==
    CASE data.kind = "dict" -> data.posts
      [] data.kind = "list" -> ItemsPosts(data.items)
      [] OTHER -> <<>>

\* lines 166-173: the Z and a "+hh:mm" offset are cut off, a "-hh:mm" offset is
\* not; a number goes through datetime.fromtimestamp
ParseTimestamp(ts) ==
    CASE ts.k = "iso" -> TimeOf(ts.t, ts.tz = "-")
      [] ts.k = "number" -> TimeOf(ts.t, FALSE)
      [] OTHER -> NoTime

\* lines 163-188: the trend entry of one post
InstagramTrend(acc, ts, polarity, now) ==
    CASE ts.k \in {"iso", "number"} -> TrendAdd(acc, Day(ParseTimestamp(ts).t), polarity)
      [] ts.k = "garbage" -> TrendAdd(acc, Day(now), polarity)
      [] ts.k = "absent" -> TrendAdd(acc, Day(now), polarity)
      [] OTHER -> acc

\* every post stamped with the instant of the analysis
InstagramParsedNow(ts, now) == TimeOf(now, FALSE)

\* lines 160-185: parsed_datetime after the block
InstagramParsed(ts, now) ==
    IF ts.k = "absent" THEN TimeOf(now, FALSE) ELSE ParseTimestamp(ts)

\* lines 201-205 without the cap of line 205
InstagramEngagementUncapped(total, likes) == Frac(total * 100, Max2(likes * 10, 1000))

\* lines 201-205: min(total / max(likes * 10, 1000) * 100, 100)
InstagramEngagement(total, likes) ==
    LET rate == Frac(total * 100, Max2(likes * 10, 1000))
    IN  IF rate.n > 100 * rate.d THEN Frac(100, 1) ELSE rate

\* a reach set that holds the owner id and the username of a post
InstagramReachBoth(post) == {post.owner_id, post.username} \ {""}

\* lines 208-211: the keys one post adds to reach_set
InstagramReachKeys(post) ==
    IF post.owner_id # "" THEN {post.owner_id}
    ELSE IF post.username # "" THEN {post.username}
    ELSE {}

\* lines 214-225
InstagramUserAdd(acc, username, polarity, likes) ==
    LET k == IndexOf(acc.user_sentiments, username)
        est == IF likes > 0 THEN likes * 15 ELSE 0
    IN  IF k = 0
        THEN [acc EXCEPT !.user_sentiments =
                Append(@, [key |-> username, sentiments |-> <<polarity>>,
                           followers |-> IntV(est), count |-> 1])]
        ELSE [acc EXCEPT !.user_sentiments[k].sentiments = Append(@, polarity),
                         !.user_sentiments[k].followers = IntV(Max2(@.v, est)),
                         !.user_sentiments[k].count = @ + 1]

\* lines 353-359
extract_instagram_location(location_data) == location_data

\* f"@{username}" if not username.startswith('@') else username
FormatUsername(username) == "@" \o username

STOPWORDS ==
    {"the", "and", "but", "for", "are", "this", "that", "with", "have", "from",
     "they", "know", "want", "been", "good", "much", "some", "time", "very",
     "when", "come", "here", "just", "like", "over", "also", "back", "after",
     "first", "well", "way", "even", "new", "work", "will", "can", "said",
     "each", "which", "their", "them", "she", "may", "use", "her", "than", "now",
     "look", "only", "its", "think", "your", "years", "these", "give", "day",
     "most", "us"}

\* lines 254-258: keywords_counter[hashtag.lower()] += 3
RECURSIVE HashtagListAdd(_, _)
HashtagListAdd(c, hashtags) ==
    IF hashtags = <<>> THEN c
    ELSE HashtagListAdd(IF Len(Head(hashtags)) > 2 THEN CounterAdd(c, Head(hashtags), 3)
                        ELSE c,
                        Tail(hashtags))

\* lines 261-265: re.findall(r'#(\w+)', caption)[:5], += 2 each
RECURSIVE CaptionHashtagAdd(_, _)
CaptionHashtagAdd(c, tags) ==
    IF tags = <<>> THEN c
    ELSE CaptionHashtagAdd(IF Len(Head(tags).w) > 2 THEN CounterAdd(c, Head(tags).w, 2)
                           ELSE c,
                           Tail(tags))

\* lines 268-278: the plain words of a caption
InstagramWords(caption) ==
    LET kept == SelectSeq(caption,
                          LAMBDA tok : /\ tok.kind \notin {"hashtag", "mention", "url"}
                                       /\ Len(tok.w) >= 3
                                       /\ tok.kind # "number"
                                       /\ tok.w \notin STOPWORDS)
    IN  [k \in DOMAIN kept |-> kept[k].w]

\* lines 252-280
InstagramKeywords(c, post) ==
    IF post.caption = <<>> THEN c
    ELSE LET c1 == HashtagListAdd(c, Take(post.hashtags, 10))
             tags == SelectSeq(post.caption, LAMBDA tok : tok.kind = "hashtag")
             c2 == CaptionHashtagAdd(c1, Take(tags, 5))
         IN  CounterUpdate(c2, InstagramWords(post.caption))

\* lines 139-284: one iteration of the loop over the posts
ProcessPost(acc, post, now) ==
    IF ~post.isdict THEN Raised(acc)
    ELSE
    LET caption == post.caption
        polarity == IF caption # <<>> THEN Polarity(caption) ELSE 0
        label == IF caption # <<>> THEN instagram_get_sentiment_label(polarity)
                 ELSE "neutral"
        a1 == [acc EXCEPT !.positive_count =
                 IF caption # <<>> /\ polarity > 0 THEN @ + 1 ELSE @]
        a2 == InstagramTrend(a1, post.timestamp, polarity, now)
        parsed == InstagramParsed(post.timestamp, now)
        likes == post.likes.v
        total == likes + post.comments + post.reshares
        a3 == IF total > 0
              THEN [a2 EXCEPT !.engagements = Append(@, InstagramEngagement(total, likes))]
              ELSE a2
        a4 == [a3 EXCEPT !.reach_set = @ \cup InstagramReachKeys(post)]
        a5 == IF post.username # ""
              THEN InstagramUserAdd(a4, post.username, polarity, likes)
              ELSE a4
        a6 == IF post.location # <<>>
              THEN CityAdd(a5, extract_instagram_location(post.location))
              ELSE a5
        time == IF parsed = NoTime THEN TimeOf(now, FALSE) ELSE parsed
        a7 == IF post.username # "" /\ caption # <<>>
              THEN [a6 EXCEPT !.recent =
                      Append(@, Tweet("instagram", caption, time,
                                      FormatUsername(post.username), label, polarity))]
              ELSE a6
        a8 == [a7 EXCEPT !.keywords_counter = InstagramKeywords(@, post)]
    IN  IF post.likes = StrV THEN Raised(a2)
        ELSE IF caption # <<>> /\ post.hashtags_null THEN Raised(a7)
        ELSE Ok(a8)

\* line 319: get_sentiment_label(avg_sentiment), on the unrounded mean
InstagramMeanLabel(sentiments) ==
    IF SumSeq(sentiments) > 100 * Len(sentiments) THEN "positive"
    ELSE IF SumSeq(sentiments) < -100 * Len(sentiments) THEN "negative"
    ELSE "neutral"

\* lines 308-322
InstagramInfluencers(user_sentiments) ==
    LET kept == SelectSeq(user_sentiments, LAMBDA e : e.count > 0)
    IN  [k \in DOMAIN kept |->
            [username |-> FormatUsername(kept[k].key),
             followers |-> kept[k].followers.v,
             sentiment |-> InstagramMeanLabel(kept[k].sentiments),
             sentiment_score |-> MeanScore(kept[k].sentiments),
             total_tweets |-> kept[k].count]]

\* lines 325-326: sort(key=(followers, total_tweets), reverse=True)[:5]; the
\* pair is compared as followers * Big + total_tweets with Big above any count
SortInfluencersInstagram(influencers) ==
    LET big == 1 + SumSeq([k \in DOMAIN influencers |-> influencers[k].total_tweets])
    IN  Take(SortDescBy(influencers,
                        [k \in DOMAIN influencers |->
                            influencers[k].followers * big + influencers[k].total_tweets]),
             InfluencerLimit)

\* lines 286-342: [raised, response]
FinalizeInstagram(acc, total) ==
    IF ~TimesComparable(acc.recent)
    THEN [raised |-> TRUE, response |-> NoResponse]
    ELSE [raised |-> FALSE,
          response |->
            AnalyzeResponse(total,
                            SentimentPercent(acc.positive_count, total),
                            AvgEngagement(acc.engagements),
                            Cardinality(acc.reach_set),
                            SentimentTrend(acc.trend),
                            TopLocationsOf(acc.city_counter),
                            TopKeywordsOf(acc.keywords_counter),
                            Take(SortByTime(acc.recent), RecentLimit),
                            SortInfluencersInstagram(InstagramInfluencers(acc.user_sentiments)),
                            NoError)]

\* ------------------------------------------------------ combine_analysis_results
\* (2a + b) / 3: an average that weighs the value already in the dict twice
Average2Weighted(a, b) == Frac(2 * a.n * b.d + b.n * a.d, 3 * a.d * b.d)

\* line 237: (a + b) / 2 on fractions
Average2(a, b) == Frac(a.n * b.d + b.n * a.d, 2 * a.d * b.d)

\* lines 232-239
RECURSIVE TrendMerge(_, _)
TrendMerge(combined, entries) ==
    IF entries = <<>> THEN combined
    ELSE LET e == Head(entries)
             k == IndexOf(combined, e.key)
         IN  TrendMerge(IF k = 0 THEN Append(combined, e)
                        ELSE [combined EXCEPT ![k].value = Average2(@, e.value)],
                        Tail(entries))

RECURSIVE CombineTrends(_, _)
CombineTrends(combined, results) ==
    IF results = <<>> THEN combined
    ELSE CombineTrends(TrendMerge(combined, Head(results).sentiment_trend), Tail(results))

\* the concatenation of one list field of all results
RECURSIVE Concat(_)
Concat(lists) == IF lists = <<>> THEN <<>> ELSE Head(lists) \o Concat(Tail(lists))

\* lines 242-245 with = for +=: the count of the last summary that lists the name
RECURSIVE LocationMergeLast(_, _)
LocationMergeLast(c, locations) ==
    IF locations = <<>> THEN c
    ELSE LET k == IndexOf(c, Head(locations).location_name)
         IN  LocationMergeLast(
                 IF k = 0
                 THEN Append(c, [key |-> Head(locations).location_name,
                                 count |-> Head(locations).total_mentions])
                 ELSE [c EXCEPT ![k].count = Head(locations).total_mentions],
                 Tail(locations))

\* lines 242-245: location_counter[name] += total_mentions
RECURSIVE LocationMerge(_, _)
LocationMerge(c, locations) ==
    IF locations = <<>> THEN c
    ELSE LocationMerge(CounterAdd(c, Head(locations).location_name,
                                  Head(locations).total_mentions),
                       Tail(locations))

\* lines 253-256
RECURSIVE KeywordMerge(_, _)
KeywordMerge(c, keywords) ==
    IF keywords = <<>> THEN c
    ELSE KeywordMerge(CounterAdd(c, Head(keywords).text, Head(keywords).mentions),
                      Tail(keywords))

\* lines 278-282 with >= for >: of equal followers the last entry is kept
RECURSIVE InfluencerDictLast(_, _)
InfluencerDictLast(d, influencers) ==
    IF influencers = <<>> THEN d
    ELSE LET u == Head(influencers)
             k == IndexOf(d, u.username)
         IN  InfluencerDictLast(
                 IF k = 0 THEN Append(d, [key |-> u.username, user |-> u])
                 ELSE IF u.followers >= d[k].user.followers
                      THEN [d EXCEPT ![k].user = u]
                      ELSE d,
                 Tail(influencers))

\* lines 278-282: one entry per username, the one with more followers; a
\* replaced entry keeps the place of the first one in the dict
RECURSIVE InfluencerDict(_, _)
InfluencerDict(d, influencers) ==
    IF influencers = <<>> THEN d
    ELSE LET u == Head(influencers)
             k == IndexOf(d, u.username)
         IN  InfluencerDict(
                 IF k = 0 THEN Append(d, [key |-> u.username, user |-> u])
                 ELSE IF u.followers > d[k].user.followers
                      THEN [d EXCEPT ![k].user = u]
                      ELSE d,
                 Tail(influencers))

\* line 285
CombinedInfluencers(all) ==
    LET d == InfluencerDict(<<>>, all)
        users == [k \in DOMAIN d |-> d[k].user]
    IN  Take(SortDescBy(users, [k \in DOMAIN users |-> users[k].followers]),
             InfluencerLimit)

\* the plain mean of the percentages, whatever the totals
CombinedPercentUnweighted(results) ==
    IF results = <<>> THEN 0
    ELSE RoundDiv(SumSeq([k \in DOMAIN results |-> results[k].positive_sentiment_percent]),
                  Len(results))

\* lines 220-222 and 289: round(total_positive / total_mentions * 100, 2) with
\* total_positive the sum of percent * total_mentions / 100 over the results
\* with mentions
CombinedPercent(results) ==
    LET total == SumSeq([k \in DOMAIN results |-> results[k].total_mentions])
        positive == SumSeq([k \in DOMAIN results |->
                        IF results[k].total_mentions > 0
                        THEN results[k].positive_sentiment_percent * results[k].total_mentions
                        ELSE 0])
    IN  IF total > 0 THEN RoundDiv(positive, total) ELSE 0

\* lines 202-297: [raised, response]; results is a sequence of responses
combine_analysis_results(results) ==
    LET n == Len(results)
        total == SumSeq([k \in 1..n |-> results[k].total_mentions])
        engagement == SumSeq([k \in 1..n |->
                        results[k].avg_engagement_rate * results[k].total_mentions])
        mentions == Concat([k \in 1..n |-> results[k].recent_mentions])
        locations == LocationMerge(<<>>, Concat([k \in 1..n |-> results[k].top_locations]))
        keywords == KeywordMerge(<<>>, Concat([k \in 1..n |-> results[k].top_keywords]))
    IN  IF results = <<>> THEN [raised |-> FALSE, response |-> ZeroResponse(NoError)]
        ELSE IF ~TimesComparable(mentions) THEN [raised |-> TRUE, response |-> NoResponse]
        ELSE [raised |-> FALSE,
              response |->
                AnalyzeResponse(
                    total,
                    CombinedPercent(results),
                    IF total > 0 THEN RoundDiv(engagement, total) ELSE 0,
                    SumSeq([k \in 1..n |-> results[k].estimated_reach]),
                    CombineTrends(<<>>, results),
                    TopLocationsOf(locations),
                    TopKeywordsOf(keywords),
                    Take(SortByTime(mentions), CombinedRecentLimit),
                    CombinedInfluencers(Concat([k \in 1..n |-> results[k].top_influencers])),
                    NoError)]

\* the combined response of the platforms that answered, carrying the error of
\* the one that failed
AllPlatformsPartial(twitter_result, instagram_result) ==
    LET twitter_error == twitter_result.error # NoError
        instagram_error == instagram_result.error # NoError
        results == (IF twitter_error THEN <<>> ELSE <<twitter_result>>)
                   \o (IF instagram_error THEN <<>> ELSE <<instagram_result>>)
        out == combine_analysis_results(results)
    IN  IF twitter_error /\ instagram_error
        THEN [raised |-> FALSE, response |-> ZeroResponse("All platforms failed")]
        ELSE IF out.raised THEN out
        ELSE [raised |-> FALSE,
              response |-> [out.response EXCEPT !.error =
                                IF twitter_error THEN twitter_result.error
                                ELSE instagram_result.error]]

\* lines 146-186 of analyze_all_platforms, once both platform calls have
\* returned: [raised, response]
AllPlatformsResult(twitter_result, instagram_result) ==
    LET twitter_error == twitter_result.error # NoError
        instagram_error == instagram_result.error # NoError
        results == (IF twitter_error THEN <<>> ELSE <<twitter_result>>)
                   \o (IF instagram_error THEN <<>> ELSE <<instagram_result>>)
    IN  IF twitter_error /\ instagram_error
        THEN [raised |-> FALSE,
              response |-> ZeroResponse("All platforms failed. Twitter: "
                                        \o twitter_result.error \o ", Instagram: "
                                        \o instagram_result.error)]
        ELSE combine_analysis_results(results)

\* ------------------------------------------------------ the state machine
\* One request to the endpoint (main.py, analyzer_endpoint): platform is
\* "twitter", "instagram" or "all"; remote is what each platform's API returns
\* for the query.
VARIABLES
    platform,   \* the platform parameter of the request
    remote,     \* [twitter, instagram]: the response each fetch will get
    clock,      \* the wall clock, read by datetime.now()
    pc,         \* "call", "loop", "final", "combine", "done"
    cur,        \* the platform whose analysis is running
    idx,        \* the position of the loop in the list of posts
    acc,        \* the tallies of the running analysis
    results,    \* [twitter, instagram]: what each analysis returned
    result,     \* what the request's analysis returned
    escaped,    \* the functions an exception has escaped from
    fetches,    \* [twitter, instagram]: the calls of each fetch function
    log,        \* history, per iteration of the running loop: [raised, time]
    first       \* the outcome of an earlier, identical request (NoOutcome if none)

vars == <<platform, remote, clock, pc, cur, idx, acc, results, result, escaped,
          fetches, log, first>>

NoOutcome == [requested |-> FALSE]

\* history only: the instant a post's timestamp stands for, the wall clock when
\* it has none that parses
ResolvedTime(ts) == IF ts.k \in {"iso", "number"} THEN ts.t ELSE clock

\* the list the loop of the running analysis iterates over
Posts(p) == IF p = "twitter" THEN remote.twitter.data ELSE InstagramPosts(remote.instagram)

FunctionName(p) == IF p = "twitter" THEN "analyze" ELSE "analyze_instagram"

\* the analysis of platform p returns response: to the endpoint (main.py lines
\* 81-85) or to analyze_all_platforms (lines 143-144)
Return(p, response) ==
    /\ results' = [results EXCEPT ![p] = response]
    /\ IF platform = "all"
       THEN /\ pc' = IF p = "twitter" THEN "call" ELSE "combine"
            /\ cur' = "instagram"
            /\ result' = result
       ELSE /\ pc' = "done"
            /\ cur' = cur
            /\ result' = response
    /\ escaped' = escaped

\* an exception leaves the analysis of platform p: analyze_all_platforms
\* catches it (lines 188-200), the endpoint turns it into an HTTP 500
Escape(p) ==
    /\ escaped' = escaped \cup {FunctionName(p)}
    /\ pc' = "done"
    /\ result' = IF platform = "all"
                 THEN ZeroResponse("Error in multi-platform analysis")
                 ELSE NoResponse
    /\ UNCHANGED <<results, cur>>

\* analyze, lines 247-292: the fetch, the early returns, the side tables
AnalyzeCall ==
    /\ pc = "call" /\ cur = "twitter"
    /\ fetches' = [fetches EXCEPT !.twitter = @ + 1]
    /\ LET data == fetch_recent_tweets(remote.twitter)
       IN  IF data.error # NoError
           THEN Return("twitter", ZeroResponse(data.error)) /\ UNCHANGED <<idx, acc, log>>
           ELSE IF ~UsersHaveIds(data.users)
           THEN Escape("twitter") /\ UNCHANGED <<idx, acc, log>>
           ELSE IF Len(data.data) = 0
           THEN Return("twitter", ZeroResponse(NoError)) /\ UNCHANGED <<idx, acc, log>>
           ELSE /\ pc' = "loop"
                /\ idx' = 1
                /\ acc' = EmptyTallies
                /\ log' = <<>>
                /\ UNCHANGED <<cur, results, result, escaped>>
    /\ UNCHANGED <<platform, remote, clock, first>>

\* analyze, lines 294-431: one iteration
TweetStep ==
    /\ pc = "loop" /\ cur = "twitter"
    /\ LET out == ProcessTweet(acc, remote.twitter.data[idx],
                               UsersDict(remote.twitter.users),
                               PlacesDict(remote.twitter.places), clock)
       IN  /\ acc' = out.acc
           /\ log' = Append(log, [raised |-> out.raised,
                                  time |-> ResolvedTime(remote.twitter.data[idx].created_at)])
    /\ idx' = idx + 1
    /\ pc' = IF idx = Len(remote.twitter.data) THEN "final" ELSE "loop"
    /\ UNCHANGED <<platform, remote, clock, cur, results, result, escaped, fetches, first>>

\* analyze, lines 433-490
AnalyzeReturn ==
    /\ pc = "final" /\ cur = "twitter"
    /\ LET out == FinalizeTwitter(acc, Len(remote.twitter.data),
                                  UsersDict(remote.twitter.users))
       IN  IF out.raised THEN Escape("twitter") ELSE Return("twitter", out.response)
    /\ UNCHANGED <<platform, remote, clock, idx, acc, fetches, log, first>>

\* analyze_instagram, lines 72-136
InstagramCall ==
    /\ pc = "call" /\ cur = "instagram"
    /\ fetches' = [fetches EXCEPT !.instagram = @ + 1]
    /\ LET data == remote.instagram
       IN  IF data.error # NoError
           THEN Return("instagram", ZeroResponse(data.error)) /\ UNCHANGED <<idx, acc, log>>
           ELSE IF data.kind = "list" /\ ~ItemsExtend(data.items)
           THEN Escape("instagram") /\ UNCHANGED <<idx, acc, log>>
           ELSE IF Len(InstagramPosts(data)) = 0
           THEN Return("instagram", ZeroResponse(NoError)) /\ UNCHANGED <<idx, acc, log>>
           ELSE /\ pc' = "loop"
                /\ idx' = 1
                /\ acc' = EmptyTallies
                /\ log' = <<>>
                /\ UNCHANGED <<cur, results, result, escaped>>
    /\ UNCHANGED <<platform, remote, clock, first>>

\* analyze_instagram, lines 138-284: one iteration
PostStep ==
    /\ pc = "loop" /\ cur = "instagram"
    /\ LET out == ProcessPost(acc, Posts("instagram")[idx], clock)
       IN  /\ acc' = out.acc
           /\ log' = Append(log, [raised |-> out.raised,
                                  time |-> ResolvedTime(Posts("instagram")[idx].timestamp)])
    /\ idx' = idx + 1
    /\ pc' = IF idx = Len(Posts("instagram")) THEN "final" ELSE "loop"
    /\ UNCHANGED <<platform, remote, clock, cur, results, result, escaped, fetches, first>>

\* analyze_instagram, lines 286-342
InstagramReturn ==
    /\ pc = "final" /\ cur = "instagram"
    /\ LET out == FinalizeInstagram(acc, Len(Posts("instagram")))
       IN  IF out.raised THEN Escape("instagram") ELSE Return("instagram", out.response)
    /\ UNCHANGED <<platform, remote, clock, idx, acc, fetches, log, first>>

\* analyze_all_platforms, lines 146-200, after both analyses returned
AllPlatforms ==
    /\ pc = "combine"
    /\ LET out == AllPlatformsResult(results.twitter, results.instagram)
       IN  /\ result' = IF out.raised
                        THEN ZeroResponse("Error in multi-platform analysis")
                        ELSE out.response
           /\ escaped' = IF out.raised
                         THEN escaped \cup {"combine_analysis_results"}
                         ELSE escaped
    /\ pc' = "done"
    /\ UNCHANGED <<platform, remote, clock, cur, idx, acc, results, fetches, log, first>>

\* time passes while a request is served
Tick ==
    /\ pc # "done"
    /\ clock < MaxClock
    /\ clock' = clock + 1
    /\ UNCHANGED <<platform, remote, pc, cur, idx, acc, results, result, escaped,
                   fetches, log, first>>

\* the same request is made a second time: the fetch returns the same data,
\* the clock has moved on or not
Again ==
    /\ pc = "done"
    /\ first = NoOutcome
    /\ first' = [requested |-> TRUE, result |-> result, escaped |-> escaped,
                 clock |-> clock]
    /\ pc' = "call"
    /\ cur' = IF platform = "instagram" THEN "instagram" ELSE "twitter"
    /\ idx' = 1
    /\ acc' = EmptyTallies
    /\ results' = [twitter |-> NoResponse, instagram |-> NoResponse]
    /\ result' = NoResponse
    /\ escaped' = {}
    /\ fetches' = [twitter |-> 0, instagram |-> 0]
    /\ log' = <<>>
    /\ UNCHANGED <<platform, remote, clock>>

\* ------------------------------------------------------ the fetched data
W(w) == [kind |-> "word", w |-> w]

H(w) == [kind |-> "hashtag", w |-> w]

M(w) == [kind |-> "mention", w |-> w]

U(w) == [kind |-> "url", w |-> w]

N(w) == [kind |-> "number", w |-> w]

Absent == [k |-> "absent", t |-> 0, tz |-> ""]

Iso(t, tz) == [k |-> "iso", t |-> t, tz |-> tz]

Garbage == [k |-> "garbage", t |-> 0, tz |-> ""]

Other == [k |-> "other", t |-> 0, tz |-> ""]

Number(t) == [k |-> "number", t |-> t, tz |-> ""]

TweetRec(text, author_id, created_at, likes, place_id) ==
    [isdict |-> TRUE, text |-> text, author_id |-> author_id,
     created_at |-> created_at, likes |-> likes, retweets |-> 1, replies |-> 0,
     place_id |-> place_id]

NotATweet ==
    [isdict |-> FALSE, text |-> <<>>, author_id |-> "", created_at |-> Absent,
     likes |-> 0, retweets |-> 0, replies |-> 0, place_id |-> ""]

UserRec(id, hasname, username, followers, location) ==
    [hasid |-> TRUE, id |-> id, hasname |-> hasname, username |-> username,
     followers |-> followers, location |-> location]

CoreUsers ==
    << UserRec("u1", TRUE, "alice", IntV(100), Chars_JakartaIndonesia),
       UserRec("u2", FALSE, "", IntV(0), Chars_jogja),
       UserRec("u3", TRUE, "carol", NullV, <<>>) >>

CorePlaces ==
    << [id |-> "p1", country |-> "Indonesia", full_name |-> Chars_KotaBandung,
        place_type |-> "city"] >>

CoreTweets ==
    { TweetRec(<<W("love"), W("kopi")>>, "u1", Iso(0, "Z"), 3, ""),
      TweetRec(<<W("poor"), M("alice"), U("x.co")>>, "u2", Iso(TicksPerDay, "Z"), 1, "p1"),
      TweetRec(<<W("okay"), W("the"), N("7")>>, "u1", Absent, 0, ""),
      TweetRec(<<W("love")>>, "u3", Iso(0, "Z"), 0, ""),
      TweetRec(<<W("nice"), H("kopi")>>, "", Garbage, 0, ""),
      TweetRec(<<W("nice")>>, "u2", Iso(TicksPerDay, "+"), 0, ""),
      TweetRec(<<W("love")>>, "u1", Other, 0, ""),
      NotATweet }

\* the sequences over S of length at most n
RECURSIVE SeqsUpTo(_, _)
SeqsUpTo(S, n) ==
    IF n = 0 THEN {<<>>}
    ELSE LET shorter == SeqsUpTo(S, n - 1)
         IN  shorter \cup {Append(b, x) : b \in shorter, x \in S}

TwitterData(error, data_kind, data, users, places) ==
    [error |-> error, data_kind |-> data_kind, data |-> data, users |-> users,
     places |-> places]

\* what the request of fetch_recent_tweets gets: an error, a response without
\* "data" (no tweet matched),
\* one whose "data" is null, or tweets with their side tables, the first user
\* of includes.users with or (for one tweet) without its id
TwitterFetches(batches, users, places) ==
    { TwitterData("Request timed out", "absent", <<>>, <<>>, <<>>),
      TwitterData(NoError, "absent", <<>>, <<>>, <<>>),
      TwitterData(NoError, "null", <<>>, <<>>, <<>>) }
    \cup {TwitterData(NoError, "list", b, IF b = <<>> THEN <<>> ELSE users,
                      IF b = <<>> THEN <<>> ELSE places) : b \in batches}
    \cup {TwitterData(NoError, "list", b, <<[users[1] EXCEPT !.hasid = FALSE]>>, <<>>) :
            b \in {c \in batches : Len(c) = 1}}

PostRec(caption, username, owner_id, timestamp, likes, location, hashtags) ==
    [isdict |-> TRUE, caption |-> caption, username |-> username,
     owner_id |-> owner_id, timestamp |-> timestamp, likes |-> likes,
     comments |-> 2, reshares |-> 0, location |-> location, hashtags |-> hashtags,
     hashtags_null |-> FALSE]

CorePosts ==
    { PostRec(<<W("love"), W("kopi"), H("kopi")>>, "dina", "o1", Iso(0, "Z"), IntV(30),
              Chars_Bali, <<"kopi">>),
      PostRec(<<W("poor"), W("this")>>, "dina", "", Absent, IntV(0), <<>>, <<>>),
      PostRec(<<>>, "eko", "o2", Garbage, IntV(0), <<>>, <<>>),
      PostRec(<<W("nice")>>, "eko", "o3", Iso(TicksPerDay, "-"), IntV(2000), Chars_Bali, <<>>),
      PostRec(<<W("love")>>, "dina", "o1", Iso(TicksPerDay, "+"), StrV, <<>>, <<>>),
      PostRec(<<W("okay")>>, "", "", Other, IntV(0), <<>>, <<"the">>),
      PostRec(<<W("nice")>>, "eko", "o2", Number(1), IntV(0), <<>>, <<>>),
      [PostRec(<<W("love")>>, "fani", "", Iso(0, ""), IntV(0), <<>>, <<>>)
         EXCEPT !.hashtags_null = TRUE],
      NotAPost }

InstagramData(error, kind, posts, items) ==
    [error |-> error, kind |-> kind, posts |-> posts, items |-> items]

HashtagObject(top_null, topPosts, latestPosts) ==
    [isdict |-> TRUE, top_null |-> top_null, topPosts |-> topPosts,
     latestPosts |-> latestPosts]

\* fetch_instagram_posts: an error, a JSON value that is neither object nor
\* array, an empty array, an array with a hashtag object whose topPosts is
\* null, or the posts
\* as the "data" of an object or as the latestPosts of a hashtag object
InstagramFetches(batches) ==
    { InstagramData("Failed to fetch Instagram data", "dict", <<>>, <<>>),
      InstagramData(NoError, "other", <<>>, <<>>),
      InstagramData(NoError, "list", <<>>, <<>>),
      InstagramData(NoError, "list", <<>>, <<HashtagObject(TRUE, <<>>, <<>>)>>) }
    \cup {InstagramData(NoError, "dict", b, <<>>) : b \in batches}
    \cup {InstagramData(NoError, "list", <<>>, <<HashtagObject(FALSE, <<>>, b)>>) :
            b \in batches \ {<<>>}}

\* the fetch of a platform the request does not ask for
Unused == [error |-> "unused"]

\* ------------------------------------------------------ specifications
InitRequest(p, twitter, instagram) ==
    /\ platform = p
    /\ remote = [twitter |-> twitter, instagram |-> instagram]
    /\ clock = 0
    /\ pc = "call"
    /\ cur = IF p = "instagram" THEN "instagram" ELSE "twitter"
    /\ idx = 1
    /\ acc = EmptyTallies
    /\ results = [twitter |-> NoResponse, instagram |-> NoResponse]
    /\ result = NoResponse
    /\ escaped = {}
    /\ fetches = [twitter |-> 0, instagram |-> 0]
    /\ log = <<>>
    /\ first = NoOutcome

\* a request for one platform, over every batch of at most MaxPosts posts
Init ==
    \/ \E tw \in TwitterFetches(SeqsUpTo(CoreTweets, MaxPosts), CoreUsers, CorePlaces) :
          InitRequest("twitter", tw, Unused)
    \/ \E ig \in InstagramFetches(SeqsUpTo(CorePosts, MaxPosts)) :
          InitRequest("instagram", Unused, ig)

Next ==
    \/ AnalyzeCall
    \/ TweetStep
    \/ AnalyzeReturn
    \/ InstagramCall
    \/ PostStep
    \/ InstagramReturn
    \/ Tick

Spec == Init /\ [][Next]_vars

\* the same request made twice, over every batch of at most MaxRepeat posts
InitRepeat ==
    \/ \E tw \in TwitterFetches(SeqsUpTo(CoreTweets, MaxRepeat), CoreUsers, CorePlaces) :
          InitRequest("twitter", tw, Unused)
    \/ \E ig \in InstagramFetches(SeqsUpTo(CorePosts, MaxRepeat)) :
          InitRequest("instagram", Unused, ig)

NextRepeat == Next \/ Again

SpecRepeat == InitRepeat /\ [][NextRepeat]_vars

\* a request for all platforms, over every pair of batches of at most MaxAll
\* posts
AllTweets ==
    { TweetRec(<<W("love"), W("kopi")>>, "u1", Iso(0, "Z"), 3, ""),
      TweetRec(<<W("poor"), M("alice"), U("x.co")>>, "u2", Iso(TicksPerDay, "Z"), 1, "p1"),
      TweetRec(<<W("nice")>>, "u2", Iso(TicksPerDay, "+"), 0, ""),
      TweetRec(<<W("okay"), W("the"), N("7")>>, "u4", Absent, 0, "") }

\* the users of these tweets: u2 and u4 both come without a username
AllUsers == Append(CoreUsers, UserRec("u4", FALSE, "", IntV(50), Chars_Bali))

AllPosts ==
    { PostRec(<<W("love"), W("kopi"), H("kopi")>>, "dina", "o1", Iso(0, "Z"), IntV(30),
              Chars_Bali, <<"kopi">>),
      PostRec(<<W("poor"), W("this")>>, "dina", "", Absent, IntV(0), <<>>, <<>>),
      PostRec(<<W("nice")>>, "eko", "o3", Iso(TicksPerDay, "-"), IntV(2000), Chars_Bali, <<>>),
      PostRec(<<W("nice")>>, "alice", "o2", Number(1), IntV(0), Chars_Jakarta, <<>>) }

InitAll ==
    \E tw \in TwitterFetches(SeqsUpTo(AllTweets, MaxAll), AllUsers, CorePlaces),
       ig \in InstagramFetches(SeqsUpTo(AllPosts, MaxAll)) :
          InitRequest("all", tw, ig)

NextAll == Next \/ AllPlatforms

SpecAll == InitAll /\ [][NextAll]_vars

\* a request for one platform over long batches: the i-th post is by its own
\* author, with its own two words and its own city (every third one negative
\* and a day later), or it is not a record
LongIds == <<"a1", "a2", "a3", "a4", "a5", "a6", "a7", "a8">>

LongCities ==
    << <<"M", "e", "d", "a", "n">>,
       <<"S", "u", "r", "a", "b", "a", "y", "a">>,
       <<"M", "a", "l", "a", "n", "g">>,
       <<"B", "o", "g", "o", "r">>,
       <<"D", "e", "p", "o", "k">>,
       <<"B", "e", "k", "a", "s", "i">>,
       <<"S", "e", "m", "a", "r", "a", "n", "g">>,
       <<"B", "a", "l", "i">> >>

LongWords ==
    <<"kopi", "teh", "susu", "gula", "roti", "nasi", "sate", "soto", "bakso", "mie",
      "tahu", "tempe", "sambal", "kerupuk", "rendang", "gudeg">>

LongUsers ==
    [i \in 1..Len(LongIds) |->
        UserRec(LongIds[i], TRUE, LongIds[i], IntV(100 * (1 + (i % 3))), LongCities[i])]

LongTweet(i, v) ==
    IF v = 2 THEN NotATweet
    ELSE TweetRec(<<W(IF i % 3 = 0 THEN "poor" ELSE "love"), W(LongWords[2 * i - 1]),
                    W(LongWords[2 * i])>>,
                  LongIds[i], Iso(IF i % 3 = 0 THEN TicksPerDay ELSE 0, "Z"), i, "")

LongPost(i, v) ==
    IF v = 2 THEN NotAPost
    ELSE PostRec(<<W(IF i % 3 = 0 THEN "poor" ELSE "love"), W(LongWords[2 * i - 1]),
                   W(LongWords[2 * i])>>,
                 LongIds[i], "", Iso(IF i % 3 = 0 THEN TicksPerDay ELSE 0, "Z"),
                 IntV(10 * (1 + (i % 3))), LongCities[i], <<>>)

LongTweetBatches ==
    UNION {{[i \in 1..n |-> LongTweet(i, f[i])] : f \in [1..n -> 1..2]} : n \in 0..MaxLong}

LongPostBatches ==
    UNION {{[i \in 1..n |-> LongPost(i, f[i])] : f \in [1..n -> 1..2]} : n \in 0..MaxLong}

InitLong ==
    \/ \E tw \in TwitterFetches(LongTweetBatches, LongUsers, <<>>) :
          InitRequest("twitter", tw, Unused)
    \/ \E ig \in InstagramFetches(LongPostBatches) :
          InitRequest("instagram", Unused, ig)

SpecLong == InitLong /\ [][Next]_vars

\* One tweet whose location string is put together from a lead, a locale
\* prefix, a name and a tail, as a profile location or as the full_name of a
\* place in Indonesia or elsewhere.
LocationLeads ==
    { <<>>,
      <<" ">>,
      <<"pin", " ">> }

LocationPrefixes ==
    { <<>>,
      <<"K", "o", "t", "a", " ">>,
      <<"i", "n", " ">>,
      <<"T", "i", "n", "g", "g", "a", "l", " ", "d", "i", " ">> }

LocationNames ==
    { <<>>,
      <<"J", "a", "k", "a", "r", "t", "a">>,
      <<"j", "o", "g", "j", "a">>,
      <<"B", "a", "n", "d", "u", "n", "g">>,
      <<"B", "a", "l", "i">>,
      <<"D", "K", "I", " ", "J", "a", "k", "a", "r", "t", "a">>,
      <<"I", "n", "d", "o", "n", "e", "s", "i", "a">>,
      <<"A", "t", "l", "a", "n", "t", "a">>,
      <<"D", "i", "l", "i">>,
      <<"L", "o", "n", "d", "o", "n">>,
      <<"N", "Y">>,
      <<"1", "2">> }

LocationTails ==
    { <<>>,
      <<",", " ", "I", "n", "d", "o", "n", "e", "s", "i", "a">>,
      <<",", " ", "J", "a", "w", "a", " ", "B", "a", "r", "a", "t">>,
      <<" ", "-", " ", "I", "D">>,
      <<"/", "x">>,
      <<"bullet", "W">> }

LocationInputs ==
    {l \o p \o n \o t : l \in LocationLeads, p \in LocationPrefixes, n \in LocationNames,
                        t \in LocationTails}

LocationPaths == {"profile", "Indonesia", "United Kingdom"}

LocationFetch(location, path) ==
    IF path = "profile"
    THEN TwitterData(NoError, "list",
                     <<TweetRec(<<W("nice")>>, "u1", Iso(0, "Z"), 0, "")>>,
                     <<UserRec("u1", TRUE, "alice", IntV(100), location)>>, <<>>)
    ELSE TwitterData(NoError, "list",
                     <<TweetRec(<<W("nice")>>, "u1", Iso(0, "Z"), 0, "p1")>>,
                     <<UserRec("u1", TRUE, "alice", IntV(100), <<>>)>>,
                     <<[id |-> "p1", country |-> path, full_name |-> location,
                        place_type |-> "city"]>>)

InitLocation ==
    \E location \in LocationInputs, path \in LocationPaths :
        InitRequest("twitter", LocationFetch(location, path), Unused)

NextLocation ==
    \/ AnalyzeCall
    \/ TweetStep
    \/ AnalyzeReturn

SpecLocation == InitLocation /\ [][NextLocation]_vars

\* Batches of one author whose texts have the polarities 0.5, 0.3, -0.4, 0.05
\* and 0, and the two texts whose polarity is -0.1 and 0.1.
MaxLabel == 3

LabelTexts ==
    { <<W("love")>>, <<W("nice")>>, <<W("poor")>>, <<W("okay")>>, <<W("kopi")>>,
      <<W("love"), W("poor"), W("poor")>>,
      <<W("okay"), W("okay"), W("okay"), W("okay"), W("nice")>> }

LabelTweets == {TweetRec(text, "u1", Iso(0, "Z"), 0, "") : text \in LabelTexts}

LabelPosts ==
    {PostRec(text, "dina", "o1", Iso(0, "Z"), IntV(1), <<>>, <<>>) : text \in LabelTexts}

InitLabel ==
    \/ \E b \in SeqsUpTo(LabelTweets, MaxLabel) \ {<<>>} :
          InitRequest("twitter",
                      TwitterData(NoError, "list", b,
                                  <<UserRec("u1", TRUE, "alice", IntV(100), <<>>)>>, <<>>),
                      Unused)
    \/ \E b \in SeqsUpTo(LabelPosts, MaxLabel) \ {<<>>} :
          InitRequest("instagram", Unused, InstagramData(NoError, "dict", b, <<>>))

NextLabel ==
    \/ AnalyzeCall
    \/ TweetStep
    \/ AnalyzeReturn
    \/ InstagramCall
    \/ PostStep
    \/ InstagramReturn

SpecLabel == InitLabel /\ [][NextLabel]_vars

\* Batches for the engagement list: tweets with 1 or 4 interactions by an
\* author of 100 followers, of 0 followers, of null followers and by an unknown
\* author; posts with 0, 2, 30, 32, 1500 and 1530 interactions, and one whose
\* "hashtags" is null.
MaxEngage == 3

EngageTweets ==
    {TweetRec(<<W("nice")>>, a, Iso(0, "Z"), l, "") : a \in {"u1", "u2", "u3", ""},
                                                      l \in {0, 3}}

EngagePosts ==
    {[PostRec(<<W("nice")>>, "dina", "o1", Iso(0, "Z"), IntV(l), <<>>, <<>>)
        EXCEPT !.comments = c] : l \in {0, 30}, c \in {0, 2, 1500}}
    \cup {[PostRec(<<W("love")>>, "fani", "", Iso(0, "Z"), IntV(30), <<>>, <<>>)
             EXCEPT !.hashtags_null = TRUE]}

InitEngage ==
    \/ \E b \in SeqsUpTo(EngageTweets, MaxEngage) \ {<<>>} :
          InitRequest("twitter", TwitterData(NoError, "list", b, CoreUsers, <<>>), Unused)
    \/ \E b \in SeqsUpTo(EngagePosts, MaxEngage) \ {<<>>} :
          InitRequest("instagram", Unused, InstagramData(NoError, "dict", b, <<>>))

NextEngage ==
    \/ AnalyzeCall
    \/ TweetStep
    \/ AnalyzeReturn
    \/ InstagramCall
    \/ PostStep
    \/ InstagramReturn

SpecEngage == InitEngage /\ [][NextEngage]_vars

\* A request for all platforms over long batches: the first n tweets of the
\* long batch, and at most MaxCombinePosts posts out of the first, the sixth
\* and the seventh post of the long batch and a post of the author a2 whose
\* 20 likes give the 300 followers a2 has on Twitter.
MaxCombine == 6

MaxCombinePosts == 2

CombineTweetBatches == {[i \in 1..n |-> LongTweet(i, 1)] : n \in 0..MaxCombine}

CombinePosts ==
    { LongPost(1, 1), LongPost(6, 1), LongPost(7, 1),
      PostRec(<<W("poor"), W("kopi")>>, "a2", "", Iso(0, "Z"), IntV(20), <<>>, <<>>) }

InitCombine ==
    \E tw \in CombineTweetBatches, ig \in SeqsUpTo(CombinePosts, MaxCombinePosts) :
        InitRequest("all", TwitterData(NoError, "list", tw, LongUsers, <<>>),
                    InstagramData(NoError, "dict", ig, <<>>))

NextCombine ==
    \/ AnalyzeCall
    \/ TweetStep
    \/ AnalyzeReturn
    \/ InstagramCall
    \/ PostStep
    \/ InstagramReturn
    \/ AllPlatforms

SpecCombine == InitCombine /\ [][NextCombine]_vars

\* ------------------------------------------------------ claims
\* the responses the state holds: of analyze, of analyze_instagram, and of the
\* request (of analyze_all_platforms when the platform is "all")
IsResponse(r) == r # NoResponse

Responses == {r \in {results.twitter, results.instagram, result} : IsResponse(r)}

\* C1: every Summary analyze and analyze_instagram return has
\* 0 <= positive_sentiment_percent <= 100, at most 5 top_locations, at most 10
\* top_keywords, at most 5 recent_mentions and at most 5 top_influencers.
C1_SummaryBounds ==
    \A r \in Responses :
        /\ 0 <= r.positive_sentiment_percent
        /\ r.positive_sentiment_percent <= 100 * 100
        /\ Len(r.top_locations) <= 5
        /\ Len(r.top_keywords) <= 10
        /\ Len(r.recent_mentions) <= 5
        /\ Len(r.top_influencers) <= 5

\* a Twitter batch with more than 5 cities, 10 keywords, 5 mentions and 5
\* authors was cut to the limits
C1_Witness ==
    /\ pc = "done" /\ platform = "twitter" /\ IsResponse(result)
    /\ Len(acc.city_counter) > 5 /\ Len(result.top_locations) = 5
    /\ Len(acc.keywords_counter) > 10 /\ Len(result.top_keywords) = 10
    /\ Len(acc.recent) > 5 /\ Len(result.recent_mentions) = 5
    /\ Len(acc.user_sentiments) > 5 /\ Len(result.top_influencers) = 5

\* the same on the Instagram path
C1_WitnessInstagram ==
    /\ pc = "done" /\ platform = "instagram" /\ IsResponse(result)
    /\ Len(acc.city_counter) > 5 /\ Len(result.top_locations) = 5
    /\ Len(acc.keywords_counter) > 10 /\ Len(result.top_keywords) = 10
    /\ Len(acc.recent) > 5 /\ Len(result.recent_mentions) = 5
    /\ Len(acc.user_sentiments) > 5 /\ Len(result.top_influencers) = 5

\* C2: estimated_reach <= total_mentions in every Summary of analyze and
\* analyze_instagram: each post adds at most one key to the reach set, whether
\* or not a later step of that post raises.
C2_ReachAtMostMentions ==
    /\ Cardinality(acc.reach_set) <= Len(log)
    /\ \A r \in Responses : r.estimated_reach <= r.total_mentions

\* every post of an Instagram batch added its own key, and one of them raised
\* after it had
C2_Witness ==
    /\ pc = "done" /\ platform = "instagram" /\ IsResponse(result)
    /\ result.total_mentions >= 2
    /\ result.estimated_reach = result.total_mentions
    /\ \E k \in DOMAIN log : log[k].raised

\* C3 (as stated): no exception escapes analyze, analyze_instagram or
\* combine_analysis_results, whatever the shape of the fetched data.
C3_NoExceptionEscapes == escaped = {}

\* the posts of the running loop that were processed without raising
Processed == {k \in DOMAIN log : ~log[k].raised}

\* C4 (as stated): a post whose processing raises contributes to none of the
\* tallies.
C4_RaisedPostContributesNothing ==
    [][(pc = "loop" /\ Len(log') = Len(log) + 1 /\ log'[Len(log')].raised)
         => acc' = acc]_vars

\* the timestamp field of a post of platform p
TimestampOf(p, post) == IF p = "twitter" THEN post.created_at ELSE post.timestamp

\* the posts counted by the trend under one date
TrendCountAt(trend, date) ==
    IF IndexOf(trend, date) = 0 THEN 0 ELSE trend[IndexOf(trend, date)].count

\* C5 (as stated): a post whose timestamp is absent or does not parse is not
\* dropped from the sentiment trend: when it is processed without raising, it
\* is counted under the date of the wall clock.
C5_MissingTimestampCountsToday ==
    [][(/\ pc = "loop"
        /\ Len(log') = Len(log) + 1
        /\ ~log'[Len(log')].raised
        /\ TimestampOf(cur, Posts(cur)[idx]).k \notin {"iso", "number"})
         => TrendCountAt(acc'.trend, Day(clock)) = TrendCountAt(acc.trend, Day(clock)) + 1]_vars

\* every post of the batch that is a record has a timestamp that parses
AllTimestampsParse(p) ==
    \A k \in DOMAIN Posts(p) :
        Posts(p)[k].isdict => TimestampOf(p, Posts(p)[k]).k \in {"iso", "number"}

\* C6 (as stated): two calls of analyze, or of analyze_instagram, on the same
\* fetched batch return identical Summaries, whatever the timestamps of the
\* posts and the instants of the two calls.
C6_SameBatchSameSummary ==
    (pc = "done" /\ first.requested) => first.result = result

\* C6 (amended): two calls on the same fetched batch return identical
\* Summaries (or both raise) when every post of the batch has a timestamp that
\* parses; a post without one is stamped with the wall clock of its call.
C6_SameBatchSameSummaryWhenTimestampsParse ==
    (pc = "done" /\ first.requested /\ AllTimestampsParse(platform))
        => (first.result = result /\ first.escaped = escaped)

\* a batch with mentions and a trend was analysed twice, the second time at a
\* later instant
C6_Witness ==
    /\ pc = "done" /\ first.requested /\ AllTimestampsParse(platform)
    /\ clock > first.clock
    /\ IsResponse(result)
    /\ result.recent_mentions # <<>>
    /\ result.sentiment_trend # <<>>

\* the text the scorer gets from a post of platform p
TextOf(p, post) == IF p = "twitter" THEN post.text ELSE post.caption

\* the posts of the batch whose polarity is above zero
PositivePosts(p) ==
    {k \in DOMAIN Posts(p) : Posts(p)[k].isdict /\ Polarity(TextOf(p, Posts(p)[k])) > 0}

\* C7: positive_sentiment_percent is positive_count / total * 100 rounded to 2
\* decimals, positive_count the posts of the batch scored positive and total
\* the posts of the batch, and 0 when total is 0; polarities 0.5, 0.3 and -0.4
\* give 66.67.
C7_PositivePercent ==
    \A p \in {"twitter", "instagram"} :
        (IsResponse(results[p]) /\ results[p].error = NoError) =>
            LET total == Len(Posts(p))
                positive == Cardinality(PositivePosts(p))
                percent == results[p].positive_sentiment_percent
            IN  /\ results[p].total_mentions = total
                /\ total = 0 => percent = 0
                /\ total > 0 => 2 * Abs(percent * total - 100 * 100 * positive) <= total

\* three tweets of polarity 0.5, 0.3 and -0.4 gave 66.67
C7_Witness ==
    /\ pc = "done" /\ platform = "twitter" /\ IsResponse(result)
    /\ Len(Posts("twitter")) = 3
    /\ {Polarity(Posts("twitter")[k].text) : k \in 1..3} = {500, 300, -400}
    /\ result.positive_sentiment_percent = 6667

\* the polarity sum and the count of the processed posts resolved to date d
DateSum(p, d) ==
    SumSeq([k \in DOMAIN log |->
              IF k \in Processed /\ Day(log[k].time) = d
              THEN Polarity(TextOf(p, Posts(p)[k])) ELSE 0])

DateCount(d) == Cardinality({k \in Processed : Day(log[k].time) = d})

\* C8 (as stated): sentiment_trend has exactly one entry per distinct date
\* among the resolved timestamps of the posts, its value the mean polarity of
\* the posts resolved to that date, rounded to 3 decimals.
C8_TrendEntryPerResolvedDate ==
    (pc = "done" /\ IsResponse(result) /\ result.total_mentions > 0) =>
        LET trend == result.sentiment_trend
        IN  /\ \A d \in {Day(log[k].time) : k \in Processed} :
                  /\ Cardinality({j \in DOMAIN trend : trend[j].key = d}) = 1
                  /\ \A j \in DOMAIN trend :
                        trend[j].key = d =>
                            trend[j].value = Frac(RoundDiv(DateSum(platform, d), DateCount(d)), 1)
            /\ \A j \in DOMAIN trend : DateCount(trend[j].key) > 0

\* the fetch of platform p succeeded with zero posts
ZeroPosts(p) ==
    /\ remote[p].error = NoError
    /\ IF p = "twitter"
       THEN remote[p].data_kind \in {"list", "absent"} /\ remote[p].data = <<>>
       ELSE /\ InstagramPosts(remote[p]) = <<>>
            /\ \A k \in DOMAIN remote[p].items : ~remote[p].items[k].top_null

\* C9: when the fetch succeeds with zero posts, analyze and analyze_instagram
\* return the Summary with total_mentions, positive_sentiment_percent,
\* avg_engagement_rate and estimated_reach 0, an empty sentiment_trend, four
\* empty lists and error unset.
C9_EmptyBatchIsNoError ==
    (pc = "done" /\ ZeroPosts(platform)) =>
        /\ escaped = {}
        /\ result = [total_mentions |-> 0, positive_sentiment_percent |-> 0,
                     avg_engagement_rate |-> 0, estimated_reach |-> 0,
                     sentiment_trend |-> <<>>, top_locations |-> <<>>,
                     top_keywords |-> <<>>, recent_mentions |-> <<>>,
                     top_influencers |-> <<>>, error |-> ""]

\* analyze returned for an empty list of tweets
C9_Witness ==
    /\ pc = "done" /\ platform = "twitter" /\ ZeroPosts("twitter")
    /\ remote.twitter.data_kind = "list"
    /\ IsResponse(result)

\* analyze_instagram returned for an empty array
C9_WitnessInstagram ==
    /\ pc = "done" /\ platform = "instagram" /\ ZeroPosts("instagram")
    /\ remote.instagram.kind = "list"
    /\ IsResponse(result)

\* a response without mentions, rates, dates or lists
AllZero(r) ==
    /\ r.total_mentions = 0 /\ r.positive_sentiment_percent = 0
    /\ r.avg_engagement_rate = 0 /\ r.estimated_reach = 0
    /\ r.sentiment_trend = <<>> /\ r.top_locations = <<>> /\ r.top_keywords = <<>>
    /\ r.recent_mentions = <<>> /\ r.top_influencers = <<>>

\* C10: a Summary of analyze, analyze_instagram, analyze_all_platforms or
\* combine_analysis_results whose error is set is all zero and empty; a failed
\* fetch gives such a Summary, is not retried, and none of its posts is
\* processed.
C10_ErrorMeansAllZero ==
    /\ \A r \in Responses : r.error # NoError => AllZero(r)
    /\ \A p \in {"twitter", "instagram"} :
          /\ fetches[p] <= 1
          /\ (IsResponse(results[p]) /\ remote[p].error # NoError) =>
                (results[p].error = remote[p].error /\ AllZero(results[p]))
    /\ pc \in {"loop", "final"} => remote[cur].error = NoError

\* both fetches failed, each was made once, and the request reports both
C10_Witness ==
    /\ pc = "done"
    /\ remote.twitter.error # NoError /\ remote.instagram.error # NoError
    /\ fetches = [twitter |-> 1, instagram |-> 1]
    /\ result.error # NoError /\ AllZero(result)

\* the Twitter fetch failed and the request reports the Instagram posts alone
C10_WitnessPartial ==
    /\ pc = "done"
    /\ remote.twitter.error # NoError
    /\ results.twitter.error # NoError
    /\ result.error = NoError /\ result.total_mentions > 0

\* the Summaries analyze_all_platforms combines: those without error, Twitter
\* first
Succeeded ==
    (IF results.twitter.error = NoError THEN <<results.twitter>> ELSE <<>>)
    \o (IF results.instagram.error = NoError THEN <<results.instagram>> ELSE <<>>)

\* the request for all platforms ended with the combination of some Summaries
Combined ==
    /\ pc = "done" /\ platform = "all" /\ escaped = {}
    /\ Succeeded # <<>>

\* C11: combine_analysis_results returns the sum of the inputs' total_mentions
\* and, as positive_sentiment_percent, the mean of the inputs' percentages
\* weighted by total_mentions, 0 when the combined total is 0; two summaries
\* of equal total and 50 percent each give 50 percent.
C11_CombinedTotalAndPercent ==
    Combined =>
        LET total == SumSeq([k \in DOMAIN Succeeded |-> Succeeded[k].total_mentions])
            weighted == SumSeq([k \in DOMAIN Succeeded |->
                            Succeeded[k].positive_sentiment_percent
                                * Succeeded[k].total_mentions])
            percent == result.positive_sentiment_percent
        IN  /\ result.total_mentions = total
            /\ total = 0 => percent = 0
            /\ total > 0 => 2 * Abs(percent * total - weighted) <= total

\* a Summary of one mention, all positive, and one of two mentions, half
\* positive, were combined to 66.67 percent of three
C11_Witness ==
    /\ Combined /\ Len(Succeeded) = 2
    /\ results.twitter.total_mentions = 1
    /\ results.twitter.positive_sentiment_percent = 10000
    /\ results.instagram.total_mentions = 2
    /\ results.instagram.positive_sentiment_percent = 5000
    /\ result.total_mentions = 3
    /\ result.positive_sentiment_percent = 6667

\* two Summaries of equal total and 50 percent each were combined to 50 percent
C11_WitnessEqual ==
    /\ Combined /\ Len(Succeeded) = 2
    /\ results.twitter.total_mentions = results.instagram.total_mentions
    /\ results.twitter.positive_sentiment_percent = 5000
    /\ results.instagram.positive_sentiment_percent = 5000
    /\ result.total_mentions = 2 * results.twitter.total_mentions
    /\ result.positive_sentiment_percent = 5000

\* C12 (as stated): combine_analysis_results([s]) returns s unchanged for
\* every Summary s of analyze or analyze_instagram: no entry of a list is lost
\* or reordered, also when influencers share a displayed username.
C12_CombineOfOneIsIdentity ==
    (Combined /\ Len(Succeeded) = 1) => result = Succeeded[1]

\* the analysis of platform p returned a Summary that carries an error
Failed(p) == IsResponse(results[p]) /\ results[p].error # NoError

\* C13 (as stated): analyze_all_platforms runs the Twitter analysis and then
\* the Instagram analysis; its Summary carries an error, and is all zero,
\* exactly when both platform Summaries carry one, and the message holds both
\* error texts; otherwise it is the combination of the successful Summaries,
\* Twitter first, with error unset.
C13_ErrorExactlyWhenBothFailed ==
    (pc = "done" /\ platform = "all") =>
        /\ fetches = [twitter |-> 1, instagram |-> 1]
        /\ IsResponse(results.twitter) /\ IsResponse(results.instagram)
        /\ result.error # NoError <=> (Failed("twitter") /\ Failed("instagram"))
        /\ (Failed("twitter") /\ Failed("instagram")) =>
              /\ AllZero(result)
              /\ result.error = "All platforms failed. Twitter: " \o results.twitter.error
                                    \o ", Instagram: " \o results.instagram.error
        /\ ~(Failed("twitter") /\ Failed("instagram")) =>
              result = combine_analysis_results(Succeeded).response

\* the location string of the request of SpecLocation, and the city analyze
\* counted for it (NoCity when it counted none)
LocationInput ==
    IF remote.twitter.places # <<>> THEN remote.twitter.places[1].full_name
    ELSE remote.twitter.users[1].location

CountedCity ==
    IF result.top_locations = <<>> THEN NoCity ELSE result.top_locations[1].location_name

\* analyze has returned for a tweet geo-tagged with a place in Indonesia: the
\* city it counted is what extract_indonesian_city returned for the full_name
IndonesianGeoDone ==
    /\ pc = "done" /\ platform = "twitter" /\ escaped = {}
    /\ remote.twitter.places # <<>>
    /\ remote.twitter.places[1].country = "Indonesia"

\* the first separator of the scanning order that occurs in s
FirstSeparator(s) ==
    Separators[CHOOSE i \in DOMAIN Separators :
                  /\ Contains(s, Separators[i])
                  /\ \A j \in 1..(i - 1) : ~Contains(s, Separators[j])]

\* s starts with the locale phrase p as whole words
StartsWithPhrase(s, p) ==
    /\ StartsWith(LowerStr(s), p)
    /\ Len(s) = Len(p) \/ ~IsWordChar(p[Len(p)]) \/ ~IsWordChar(s[Len(p) + 1])

\* an input 'X<sep>rest' of the general rule: no symbols and no locale phrase
\* in front (a 'kota ' or 'kabupaten ' word apart), and the first segment,
\* lower-cased and without punctuation, is no locale phrase and no alias, is
\* longer than 2 characters and not numeric, with and without its 'kota ' word
SegmentName(s) ==
    DropKota(Strip(RemovePunctuation(LowerStr(BeforeFirst(s, FirstSeparator(s))))))

GeneralInput(s) ==
    /\ \E i \in DOMAIN Separators : Contains(s, Separators[i])
    /\ s # <<>> /\ IsLetter(s[1])
    /\ \A i \in DOMAIN IndonesianPrefixes :
          StartsWithPhrase(s, IndonesianPrefixes[i])
              => IndonesianPrefixes[i] \in {<<"k", "o", "t", "a">>, <<"k", "a", "b", "u", "p", "a", "t", "e", "n">>}
    /\ LET x == Strip(RemovePunctuation(LowerStr(BeforeFirst(s, FirstSeparator(s)))))
       IN  /\ \A i \in DOMAIN IndonesianPrefixes : x # IndonesianPrefixes[i]
           /\ ~HasAlias(x) /\ ~HasAlias(SegmentName(s))
           /\ Len(SegmentName(s)) > 2 /\ ~IsDigitStr(SegmentName(s))

\* C14: extract_indonesian_city returns None for an empty or whitespace-only
\* string, 'Jakarta' for 'Jakarta, Indonesia', 'Bandung' for 'Kota Bandung,
\* Jawa Barat', the canonical city for a string that, stripped and lower-cased,
\* is a key of the alias table, and for an input 'X<sep>rest' of the general
\* rule X title-cased with a leading 'kota ' or 'kabupaten ' word dropped.
C14_IndonesianExtractor ==
    IndonesianGeoDone =>
        LET s == LocationInput
        IN  /\ Strip(s) = <<>> => CountedCity = NoCity
            /\ s = Chars_JakartaIndonesia => CountedCity = Chars_Jakarta
            /\ s = Chars_KotaBandung => CountedCity = <<"B", "a", "n", "d", "u", "n", "g">>
            /\ HasAlias(LowerStr(Strip(s))) => CountedCity = AliasOf(LowerStr(Strip(s)))
            /\ GeneralInput(s) => CountedCity = Title(SegmentName(s))

\* the stopword set of the path of platform p, and what the mentions and URLs
\* of the batch of p would be as words
StopwordsOf(p) == IF p = "twitter" THEN TwitterStopwords ELSE STOPWORDS

MentionsAndUrls(p) ==
    UNION {{TextOf(p, Posts(p)[k])[j].w :
              j \in {i \in DOMAIN TextOf(p, Posts(p)[k]) :
                        TextOf(p, Posts(p)[k])[i].kind \in {"mention", "url"}}} :
           k \in {i \in DOMAIN Posts(p) : Posts(p)[i].isdict}}

\* C15: no key of the keyword tally, and so no top_keywords entry, is a URL, an
\* @mention or a word of the stopword set of the path; on the Instagram path
\* this covers the words of the hashtags list and the '#word' hashtags of the
\* caption as well as the plain words.
C15_NoNoiseKeywords ==
    /\ \A k \in DOMAIN acc.keywords_counter :
          acc.keywords_counter[k].key \notin StopwordsOf(cur) \cup MentionsAndUrls(cur)
    /\ \A p \in {"twitter", "instagram"} :
          IsResponse(results[p]) =>
              \A k \in DOMAIN results[p].top_keywords :
                  results[p].top_keywords[k].text
                      \notin StopwordsOf(p) \cup MentionsAndUrls(p)

\* sentiment is the label of the polarity n / d (in thousandths, d > 0):
\* 'positive' exactly above 0.1, 'negative' exactly below -0.1, else 'neutral'
Labelled(sentiment, n, d) ==
    /\ sentiment \in {"positive", "negative", "neutral"}
    /\ sentiment = "positive" <=> n > 100 * d
    /\ sentiment = "negative" <=> n < -100 * d

\* post of the batch of platform p is by the author shown as username
ByAuthor(p, post, username) ==
    /\ post.isdict
    /\ IF p = "twitter"
       THEN \E i \in DOMAIN remote.twitter.users :
               /\ remote.twitter.users[i].id = post.author_id
               /\ TwitterUsername(remote.twitter.users[i]) = username
       ELSE FormatUsername(post.username) = username

PolaritySum(p, username) ==
    SumSeq([k \in DOMAIN Posts(p) |->
               IF ByAuthor(p, Posts(p)[k], username)
               THEN Polarity(TextOf(p, Posts(p)[k]))
               ELSE 0])

PostCount(p, username) ==
    Cardinality({k \in DOMAIN Posts(p) : ByAuthor(p, Posts(p)[k], username)})

\* C16: get_sentiment_label returns 'positive' exactly when the polarity is
\* above 0.1, 'negative' exactly when it is below -0.1 and 'neutral' otherwise
\* (0.1 and -0.1 are neutral); the definitions of analyzer.py and of
\* instagram_analyzer.py agree on every polarity; the sentiment of every recent
\* mention is this label of its polarity and the sentiment of every influencer
\* this label of the mean polarity of the author's posts.
C16_SentimentLabel ==
    /\ pc = "call" =>
          \A polarity \in -1000..1000 :
              /\ Labelled(get_sentiment_label(polarity), polarity, 1)
              /\ instagram_get_sentiment_label(polarity) = get_sentiment_label(polarity)
    /\ \A p \in {"twitter", "instagram"} :
          IsResponse(results[p]) =>
              /\ \A k \in DOMAIN results[p].recent_mentions :
                    Labelled(results[p].recent_mentions[k].sentiment,
                             results[p].recent_mentions[k].sentiment_score, 1)
              /\ \A k \in DOMAIN results[p].top_influencers :
                    Labelled(results[p].top_influencers[k].sentiment,
                             PolaritySum(p, results[p].top_influencers[k].username),
                             PostCount(p, results[p].top_influencers[k].username))

\* an author of three posts of polarity 0.3, 0 and 0: the mean is 0.1 and the
\* influencer is neutral, next to a positive mention
C16_Witness ==
    /\ pc = "done" /\ IsResponse(result)
    /\ \E k \in DOMAIN result.top_influencers :
          /\ result.top_influencers[k].total_tweets = 3
          /\ PolaritySum(cur, result.top_influencers[k].username) = 300
          /\ result.top_influencers[k].sentiment = "neutral"
    /\ \E k \in DOMAIN result.recent_mentions :
          result.recent_mentions[k].sentiment = "positive"

\* mentions of polarity -0.1 and 0.1, both neutral
C16_WitnessMention ==
    /\ pc = "done" /\ IsResponse(result)
    /\ \E j, k \in DOMAIN result.recent_mentions :
          /\ result.recent_mentions[j].sentiment_score = -100
          /\ result.recent_mentions[k].sentiment_score = 100
          /\ result.recent_mentions[j].sentiment = "neutral"
          /\ result.recent_mentions[k].sentiment = "neutral"

\* top holds the n highest-count entries of tally in non-increasing order of
\* count, of two entries of equal count the one inserted first coming first
\* and being the one kept
IsTopOf(top, tally, n) ==
    /\ Len(top) = IF Len(tally) < n THEN Len(tally) ELSE n
    /\ \A k \in DOMAIN top :
          /\ IndexOf(tally, top[k].key) # 0
          /\ tally[IndexOf(tally, top[k].key)].count = top[k].count
    /\ \A j, k \in DOMAIN top :
          j < k => \/ top[j].count > top[k].count
                   \/ /\ top[j].count = top[k].count
                      /\ IndexOf(tally, top[j].key) < IndexOf(tally, top[k].key)
    /\ \A k \in DOMAIN top, b \in DOMAIN tally :
          (\A j \in DOMAIN top : top[j].key # tally[b].key)
              => \/ tally[b].count < top[k].count
                 \/ /\ tally[b].count = top[k].count
                    /\ IndexOf(tally, top[k].key) < b

\* the Summary of the request came out of the tallies of acc
Aggregated ==
    /\ pc = "done" /\ platform # "all" /\ IsResponse(result)
    /\ result.error = NoError /\ result.total_mentions > 0

\* C17: top_locations is the 5 highest-count entries of the location tally and
\* top_keywords the 10 highest-count entries of the keyword tally, in
\* non-increasing order of count, ties in insertion order, the first inserted
\* kept on truncation.
C17_TopEntries ==
    Aggregated =>
        /\ IsTopOf([k \in DOMAIN result.top_locations |->
                       [key |-> result.top_locations[k].location_name,
                        count |-> result.top_locations[k].total_mentions]],
                   acc.city_counter, 5)
        /\ IsTopOf([k \in DOMAIN result.top_keywords |->
                       [key |-> result.top_keywords[k].text,
                        count |-> result.top_keywords[k].mentions]],
                   acc.keywords_counter, 10)

\* more than 5 cities and more than 10 keywords, a keyword with a higher count
\* that was inserted late ranked before earlier ones, and keywords of equal
\* count of which the last inserted are cut
C17_Witness ==
    /\ Aggregated
    /\ Len(acc.city_counter) > 5 /\ Len(acc.keywords_counter) > 10
    /\ \E k \in DOMAIN result.top_keywords :
          IndexOf(acc.keywords_counter, result.top_keywords[k].text) > k
    /\ result.top_keywords[10].mentions
          = acc.keywords_counter[Len(acc.keywords_counter)].count

\* the authors of the tallies with a post, as influencers in first-seen order
Candidates ==
    IF cur = "twitter"
    THEN TwitterInfluencers(acc.user_sentiments, UsersDict(remote.twitter.users))
    ELSE InstagramInfluencers(acc.user_sentiments)

\* C18: top_influencers holds only authors with post_count > 0, sorted by
\* followers in descending order, authors of equal followers in first-seen
\* order (a stable sort on followers alone), cut to 5, in analyze and in
\* analyze_instagram.
C18_InfluencersByFollowersStable ==
    Aggregated =>
        /\ \A k \in DOMAIN result.top_influencers :
              result.top_influencers[k].total_tweets > 0
        /\ result.top_influencers
              = Take(SortDescBy(Candidates,
                                [k \in DOMAIN Candidates |-> Candidates[k].followers]), 5)

\* the username a post of the batch of platform p resolves to, "" when none
MentionUser(p, post) ==
    IF ~post.isdict THEN ""
    ELSE IF p = "twitter"
    THEN IF \E i \in DOMAIN remote.twitter.users :
               remote.twitter.users[i].id = post.author_id
         THEN TwitterUsername(UsersDict(remote.twitter.users)[post.author_id])
         ELSE ""
    ELSE IF post.username # "" THEN FormatUsername(post.username) ELSE ""

\* the posts of the batch that were processed without an exception and have a
\* username, in batch order, each as <<username, text, instant>> with the
\* instant of its timestamp or, when none parsed, of its aggregation
MentionedPosts(p) ==
    LET kept == SelectSeq([k \in DOMAIN Posts(p) |-> k],
                          LAMBDA k : k \in Processed /\ MentionUser(p, Posts(p)[k]) # "")
    IN  [j \in DOMAIN kept |->
            <<MentionUser(p, Posts(p)[kept[j]]), TextOf(p, Posts(p)[kept[j]]),
              log[kept[j]].time>>]

\* C19: recent_mentions is built from every successfully processed post with a
\* resolved username, whatever its text, timed at the aggregation instant when
\* no timestamp parsed, sorted by time descending with equal times in batch
\* order, and cut to the 5 most recent.
C19_RecentMentions ==
    Aggregated =>
        [k \in DOMAIN result.recent_mentions |->
            <<result.recent_mentions[k].username, result.recent_mentions[k].text,
              result.recent_mentions[k].time.t>>]
          = Take(SortDescBy(MentionedPosts(cur),
                            [j \in DOMAIN MentionedPosts(cur) |-> MentionedPosts(cur)[j][3]]),
                 5)

\* the sum of the counts of a location tally
CitySum(a) == SumSeq([k \in DOMAIN a.city_counter |-> a.city_counter[k].count])

\* tweet t has a geo-tag that resolves to a place from which a city is read
GeoTagged(t) ==
    /\ t.isdict /\ t.place_id # ""
    /\ \E i \in DOMAIN remote.twitter.places : remote.twitter.places[i].id = t.place_id
    /\ GeoCity(PlacesDict(remote.twitter.places)[t.place_id]) # NoCity

\* C20: in analyze each post adds at most 1 to the location tally, and a post
\* with a geo-tag that resolves to a place counts the geo-tag location only,
\* the profile location being used only without a geo-tag; so the sum of the
\* location counts never exceeds the number of posts.
C20_OneLocationPerPost ==
    [][(pc = "loop" /\ cur = "twitter" /\ idx' = idx + 1) =>
          /\ CitySum(acc') <= CitySum(acc) + 1
          /\ CitySum(acc') <= idx
          /\ (GeoTagged(remote.twitter.data[idx]) /\ ~log'[Len(log')].raised) =>
                acc'.city_counter
                   = CounterAdd(acc.city_counter,
                                GeoCity(PlacesDict(remote.twitter.places)
                                           [remote.twitter.data[idx].place_id]), 1)]_vars

\* ------------------------------------------------------------------ C21
\* analyze has returned for the one tweet of a location batch, on a path that
\* calls extract_indonesian_city: the profile location (no place), or a
\* geo-tag whose place has the country Indonesia
IndonesianFirstDone ==
    /\ pc = "done" /\ platform = "twitter" /\ escaped = {}
    /\ \/ remote.twitter.places = <<>>
       \/ remote.twitter.places[1].country = "Indonesia"

\* C21: whenever the caller invokes the Indonesian extractor on a location
\* string and it yields nothing, the caller falls back to the generic extractor
\* on the same string, on the profile-location path and on the geo-tag path of
\* a place in Indonesia: the city counted is then what extract_city_name
\* returns, so the location is left uncounted only when both return nothing.
C21_FallbackToGeneric ==
    (IndonesianFirstDone /\ extract_indonesian_city(LocationInput) = NoCity)
        => CountedCity = extract_city_name(LocationInput)

\* ------------------------------------------------------------------ C22
\* analyze has returned for a tweet geo-tagged with a place: the city it
\* counted is what the extractor chosen by the place's country returned
GeoTagDone ==
    /\ pc = "done" /\ platform = "twitter" /\ escaped = {}
    /\ remote.twitter.places # <<>>

\* the cleaned string of an extractor: stripped, without leading symbols and
\* without the locale prefix the code cut off
Cleaned(s, prefixes) ==
    DropPrefix(Strip(DropLeadingSymbols(Strip(s))),
               LowerStr(Strip(DropLeadingSymbols(Strip(s)))), prefixes)

\* s contains a separator, and the segment before the first separator found
\* is, without punctuation, at most 2 characters long or purely numeric
ShortFirstSegment(s) ==
    /\ \E i \in DOMAIN Separators : Contains(s, Separators[i])
    /\ \/ Len(Strip(RemovePunctuation(BeforeFirst(s, FirstSeparator(s))))) <= 2
       \/ IsDigitStr(Strip(RemovePunctuation(BeforeFirst(s, FirstSeparator(s)))))

\* C22: in both location extractors, when the cleaned string contains a
\* separator and the segment before the first separator found is, after
\* punctuation removal, at most 2 characters long or purely numeric, the
\* extractor returns None: neither another separator nor the whole string is
\* tried.
C22_ShortSegmentReturnsNone ==
    GeoTagDone =>
        /\ (remote.twitter.places[1].country = "Indonesia"
             /\ ShortFirstSegment(Cleaned(LocationInput, IndonesianPrefixes)))
               => CountedCity = NoCity
        /\ (remote.twitter.places[1].country # "Indonesia"
             /\ ShortFirstSegment(Cleaned(LocationInput, GenericPrefixes)))
               => CountedCity = NoCity

\* ------------------------------------------------------------------ C23
\* C23: for every author key of user_sentiments, post_count (tweet_count on
\* Twitter) equals the length of its sentiments after each iteration of the
\* per-post loop, the iterations that end in a caught exception included; so
\* the total_tweets of an influencer is the number of polarities averaged into
\* its sentiment_score.
C23_PostCountIsLenSentiments ==
    /\ \A k \in DOMAIN acc.user_sentiments :
          acc.user_sentiments[k].count = Len(acc.user_sentiments[k].sentiments)
    /\ (pc = "done" /\ platform # "all" /\ escaped = {} /\ result.error = NoError)
         => \A i \in DOMAIN result.top_influencers :
               \E k \in DOMAIN acc.user_sentiments :
                  /\ result.top_influencers[i].total_tweets
                        = Len(acc.user_sentiments[k].sentiments)
                  /\ result.top_influencers[i].sentiment_score
                        = MeanScore(acc.user_sentiments[k].sentiments)

\* an author with two polarities, in a loop that caught an exception, and an
\* influencer of two posts returned
C23_Witness ==
    /\ \E k \in DOMAIN acc.user_sentiments : Len(acc.user_sentiments[k].sentiments) >= 2
    /\ \E i \in DOMAIN log : log[i].raised

C23_WitnessInfluencer ==
    /\ pc = "done" /\ platform # "all" /\ escaped = {} /\ result.error = NoError
    /\ \E i \in DOMAIN result.top_influencers : result.top_influencers[i].total_tweets >= 2

\* ------------------------------------------------------------------ C24
\* the step is an iteration of the per-post loop that ended without exception
ProcessedStep == pc = "loop" /\ idx' = idx + 1 /\ ~log'[Len(log')].raised

\* the interactions of the post of the running iteration
Interactions ==
    IF cur = "twitter"
    THEN remote.twitter.data[idx].likes + remote.twitter.data[idx].retweets
            + remote.twitter.data[idx].replies
    ELSE Posts("instagram")[idx].likes.v + Posts("instagram")[idx].comments
            + Posts("instagram")[idx].reshares

\* the tweet of the running iteration has a record in includes.users
KnownAuthor ==
    \E k \in DOMAIN remote.twitter.users :
        remote.twitter.users[k].id = remote.twitter.data[idx].author_id

AuthorFollowers == UsersDict(remote.twitter.users)[remote.twitter.data[idx].author_id].followers.v

\* max(likes * 10, 1000) of the post of the running iteration
EstimatedFollowers == Max2(Posts("instagram")[idx].likes.v * 10, 1000)

\* n/d is the mean of the fractions of engagements, rounded to 4 decimals, in
\* ten-thousandths: no ten-thousandth is nearer to the mean
IsRoundedMean(v, engagements) ==
    IF engagements = <<>> THEN v = 0
    ELSE 2 * Abs(v * SumFrac(engagements).d * Len(engagements)
                   - SumFrac(engagements).n * 10000)
            <= SumFrac(engagements).d * Len(engagements)

AnalysisReturned ==
    pc = "done" /\ platform # "all" /\ escaped = {} /\ result.error = NoError

\* what C24 says as it stands: every successfully processed post contributes
\* exactly one value, interactions / followers * 100 when the followers (of the
\* tweet's author, or estimated for the post) are positive and the raw count
\* of interactions otherwise, and avg_engagement_rate is the rounded mean
C24_EngagementPerPost ==
    /\ [][ProcessedStep =>
            acc'.engagements =
               Append(acc.engagements,
                      IF cur = "twitter"
                      THEN IF KnownAuthor /\ AuthorFollowers > 0
                           THEN Frac(Interactions * 100, AuthorFollowers)
                           ELSE Frac(Interactions, 1)
                      ELSE Frac(Interactions * 100, EstimatedFollowers))]_vars
    /\ [](AnalysisReturned => IsRoundedMean(result.avg_engagement_rate, acc.engagements))

\* C24, amended: a successfully processed tweet contributes exactly one value to
\* the engagement list when its author has a record in includes.users,
\* interactions / followers * 100 when followers > 0 and the raw count of
\* interactions otherwise, and nothing when the author is unknown; a
\* successfully processed Instagram post contributes exactly one value when
\* it has interactions, min(interactions / max(likes * 10, 1000) * 100, 100),
\* and nothing when it has none; avg_engagement_rate is the mean of the
\* engagement list rounded to 4 decimals, and 0 when the list is empty.
C24_EngagementContributions ==
    /\ [][ProcessedStep =>
            acc'.engagements =
               IF cur = "twitter"
               THEN IF ~KnownAuthor THEN acc.engagements
                    ELSE IF AuthorFollowers > 0
                    THEN Append(acc.engagements, Frac(Interactions * 100, AuthorFollowers))
                    ELSE Append(acc.engagements, Frac(Interactions, 1))
               ELSE IF Interactions = 0 THEN acc.engagements
                    ELSE IF Interactions > EstimatedFollowers
                    THEN Append(acc.engagements, Frac(100, 1))
                    ELSE Append(acc.engagements,
                                Frac(Interactions * 100, EstimatedFollowers))]_vars
    /\ [](AnalysisReturned => IsRoundedMean(result.avg_engagement_rate, acc.engagements))

\* analyze_instagram has returned a positive rate for three processed posts:
\* one without interactions, one whose rate is capped and one below the cap
C24_Witness ==
    /\ AnalysisReturned /\ platform = "instagram"
    /\ Len(log) = 3 /\ \A i \in DOMAIN log : ~log[i].raised
    /\ Len(acc.engagements) = 2
    /\ acc.engagements[1] = Frac(100, 1) /\ acc.engagements[2] # Frac(100, 1)
    /\ result.avg_engagement_rate > 0

\* analyze has returned for a tweet of an unknown author, one of an author
\* without followers and one of an author with followers
C24_WitnessTwitter ==
    /\ AnalysisReturned /\ platform = "twitter"
    /\ Len(log) = 3 /\ \A i \in DOMAIN log : ~log[i].raised
    /\ {remote.twitter.data[i].author_id : i \in 1..3} = {"", "u1", "u2"}
    /\ Len(acc.engagements) = 2

\* ------------------------------------------------------------------ C25
\* the author keys of the posts of platform p processed without exception:
\* the author_id of a tweet, the username of an Instagram post
AuthorKeys(p) ==
    IF p = "twitter"
    THEN {remote.twitter.data[i].author_id :
            i \in {j \in DOMAIN log : ~log[j].raised}} \ {""}
    ELSE {Posts("instagram")[i].username :
            i \in {j \in DOMAIN log : ~log[j].raised}} \ {""}

\* C25: estimated_reach is the number of distinct author keys among the
\* processed posts, the author_id on Twitter and the username on Instagram:
\* two Instagram posts of one username count once, and on Instagram
\* estimated_reach is the number of authors of the author aggregate.
C25_ReachCountsAuthorKeys ==
    AnalysisReturned =>
        /\ result.estimated_reach = Cardinality(AuthorKeys(platform))
        /\ platform = "instagram" => result.estimated_reach = Len(acc.user_sentiments)

\* ------------------------------------------------------------------ C26
\* a sentiment_trend as a mapping: its dates, the value of a date, and the set
\* of its (date, value) items
TrendDates(trend) == {trend[k].key : k \in DOMAIN trend}

TrendValue(trend, date) == trend[CHOOSE k \in DOMAIN trend : trend[k].key = date].value

TrendItems(trend) == {<<trend[k].key, trend[k].value>> : k \in DOMAIN trend}

\* the fraction v is the mean of the fractions a and b
IsMeanOfTwo(v, a, b) == 2 * v.n * a.d * b.d = v.d * (a.n * b.d + b.n * a.d)

\* C26: the sentiment_trend of combine_analysis_results has exactly the union
\* of the inputs' dates as keys; a date of only one summary keeps that
\* summary's value, and for two input summaries a date of both gets the
\* unweighted average of the two values, so the combined trend of two
\* summaries does not depend on their order.
C26_CombinedTrend ==
    Combined =>
        /\ Len(result.sentiment_trend) = Cardinality(TrendDates(result.sentiment_trend))
        /\ TrendDates(result.sentiment_trend)
              = UNION {TrendDates(Succeeded[k].sentiment_trend) : k \in DOMAIN Succeeded}
        /\ \A date \in TrendDates(result.sentiment_trend) :
              LET with == {k \in DOMAIN Succeeded :
                              date \in TrendDates(Succeeded[k].sentiment_trend)}
              IN  /\ \A k \in with :
                        with = {k} => TrendValue(result.sentiment_trend, date)
                                         = TrendValue(Succeeded[k].sentiment_trend, date)
                  /\ with = {1, 2} =>
                        IsMeanOfTwo(TrendValue(result.sentiment_trend, date),
                                    TrendValue(Succeeded[1].sentiment_trend, date),
                                    TrendValue(Succeeded[2].sentiment_trend, date))
        /\ Len(Succeeded) = 2 =>
              TrendItems(CombineTrends(<<>>, <<Succeeded[2], Succeeded[1]>>))
                 = TrendItems(result.sentiment_trend)

\* two summaries were combined: a date of both with different values, and a
\* date of the second one alone
C26_Witness ==
    /\ Combined /\ Len(Succeeded) = 2
    /\ \E date \in TrendDates(Succeeded[1].sentiment_trend)
                     \cap TrendDates(Succeeded[2].sentiment_trend) :
          TrendValue(Succeeded[1].sentiment_trend, date)
             # TrendValue(Succeeded[2].sentiment_trend, date)
    /\ TrendDates(Succeeded[2].sentiment_trend)
          \ TrendDates(Succeeded[1].sentiment_trend) # {}

\* ------------------------------------------------------------------ C27
\* the top_influencers of the combined summaries, one list after the other
AllInfluencers == Concat([k \in DOMAIN Succeeded |-> Succeeded[k].top_influencers])

\* the entry of all that the claim keeps for username: the first one of those
\* with the most followers
KeptInfluencer(all, username) ==
    all[CHOOSE k \in DOMAIN all :
           /\ all[k].username = username
           /\ \A j \in DOMAIN all :
                 all[j].username = username
                    => \/ all[j].followers < all[k].followers
                       \/ all[j].followers = all[k].followers /\ k <= j]

\* C27: the top_influencers of combine_analysis_results has at most one entry
\* per username: of the entries of a username the one with strictly more
\* followers is kept, the first seen on equal followers; the result is sorted
\* by followers in descending order and cut to 5.
C27_CombinedInfluencers ==
    Combined =>
        LET top == result.top_influencers
            names == {AllInfluencers[k].username : k \in DOMAIN AllInfluencers}
        IN  /\ \A j, k \in DOMAIN top : top[j].username = top[k].username => j = k
            /\ \A k \in DOMAIN top :
                  /\ top[k].username \in names
                  /\ top[k] = KeptInfluencer(AllInfluencers, top[k].username)
            /\ \A j, k \in DOMAIN top : j < k => top[j].followers >= top[k].followers
            /\ Len(top) = IF Cardinality(names) < 5 THEN Cardinality(names) ELSE 5
            /\ \A name \in names :
                  (\A k \in DOMAIN top : top[k].username # name)
                     => \A k \in DOMAIN top :
                           KeptInfluencer(AllInfluencers, name).followers <= top[k].followers

\* more than 5 usernames were combined, one of them with equal followers in
\* both summaries and different entries
C27_Witness ==
    /\ Combined
    /\ Cardinality({AllInfluencers[k].username : k \in DOMAIN AllInfluencers}) > 5
    /\ \E j, k \in DOMAIN AllInfluencers :
          /\ j < k
          /\ AllInfluencers[j].username = AllInfluencers[k].username
          /\ AllInfluencers[j].followers = AllInfluencers[k].followers
          /\ AllInfluencers[j] # AllInfluencers[k]
          /\ \E i \in DOMAIN result.top_influencers :
                result.top_influencers[i] = AllInfluencers[j]

\* a username of both summaries whose second entry has more followers and
\* replaces the first one
C27_WitnessReplaced ==
    /\ Combined
    /\ \E j, k \in DOMAIN AllInfluencers :
          /\ j < k
          /\ AllInfluencers[j].username = AllInfluencers[k].username
          /\ AllInfluencers[j].followers < AllInfluencers[k].followers
          /\ \E i \in DOMAIN result.top_influencers :
                result.top_influencers[i] = AllInfluencers[k]

\* ------------------------------------------------------------------ C28
\* the posts of the batch of platform p whose get_sentiment_label is 'positive'
LabelledPositive(p) ==
    {k \in DOMAIN Posts(p) :
        /\ Posts(p)[k].isdict
        /\ get_sentiment_label(Polarity(TextOf(p, Posts(p)[k]))) = "positive"}

\* C28: a post is counted in positive_count only if its sentiment label is
\* 'positive': in analyze and analyze_instagram the number of posts counted as
\* positive is the number of posts whose get_sentiment_label is 'positive',
\* so a batch without such a post has a positive_sentiment_percent of 0.
C28_PositiveCountIsPositiveLabels ==
    /\ pc = "final" => acc.positive_count = Cardinality(LabelledPositive(cur))
    /\ (AnalysisReturned /\ LabelledPositive(platform) = {})
          => result.positive_sentiment_percent = 0

\* ------------------------------------------------------------------ C29
\* analyzer.py lines 294-431: the tallies after the loop over all the tweets
RECURSIVE TweetTallies(_, _, _, _, _)
TweetTallies(tallies, tweets, users, places, now) ==
    IF tweets = <<>> THEN tallies
    ELSE LET out == ProcessTweet(tallies, Head(tweets), users, places, now)
         IN  \* lines 428-431: the except branch logs and goes on with the
             \* next tweet, keeping what the iteration had tallied
             IF out.raised
             THEN TweetTallies(out.acc, Tail(tweets), users, places, now)
             ELSE TweetTallies(out.acc, Tail(tweets), users, places, now)

\* instagram_analyzer.py lines 138-284: the tallies after the loop over all
\* the posts
RECURSIVE PostTallies(_, _, _)
PostTallies(tallies, posts, now) ==
    IF posts = <<>> THEN tallies
    ELSE LET out == ProcessPost(tallies, Head(posts), now)
         IN  \* lines 280-284: the except branch, as in analyze
             IF out.raised
             THEN PostTallies(out.acc, Tail(posts), now)
             ELSE PostTallies(out.acc, Tail(posts), now)

\* the full tallies of the batch of platform p, before any truncation
FullTallies(p) ==
    IF p = "twitter"
    THEN TweetTallies(EmptyTallies, remote.twitter.data, UsersDict(remote.twitter.users),
                      PlacesDict(remote.twitter.places), clock)
    ELSE PostTallies(EmptyTallies, InstagramPosts(remote.instagram), clock)

\* the tally a with the counts of the tally b added, key by key
RECURSIVE SumTallies(_, _)
SumTallies(a, b) ==
    IF b = <<>> THEN a
    ELSE SumTallies(CounterAdd(a, Head(b).key, Head(b).count), Tail(b))

SummedCities ==
    SumTallies(FullTallies("twitter").city_counter, FullTallies("instagram").city_counter)

SummedKeywords ==
    SumTallies(FullTallies("twitter").keywords_counter,
               FullTallies("instagram").keywords_counter)

\* the top lists of a Summary as tallies
ListedLocations(r) ==
    [k \in DOMAIN r.top_locations |->
        [key |-> r.top_locations[k].location_name,
         count |-> r.top_locations[k].total_mentions]]

ListedKeywords(r) ==
    [k \in DOMAIN r.top_keywords |->
        [key |-> r.top_keywords[k].text, count |-> r.top_keywords[k].mentions]]

\* the count of key in a tally, 0 when absent
CountIn(tally, key) == IF IndexOf(tally, key) = 0 THEN 0 ELSE tally[IndexOf(tally, key)].count

\* top is a ranking of the n highest counts of tally, whatever the order of
\* equal counts: every listed name has its count of the tally, the counts do
\* not increase, and no name left out has a higher count than a listed one
IsRankingOf(top, tally, n) ==
    /\ Len(top) = IF Len(tally) < n THEN Len(tally) ELSE n
    /\ \A k \in DOMAIN top : top[k].count = CountIn(tally, top[k].key)
    /\ \A j, k \in DOMAIN top : j < k => top[j].count >= top[k].count
    /\ \A k \in DOMAIN top, b \in DOMAIN tally :
          (\A j \in DOMAIN top : top[j].key # tally[b].key)
              => tally[b].count <= top[k].count

\* both platforms answered and their Summaries were combined
BothCombined == Combined /\ Len(Succeeded) = 2

\* C29 (as claimed): the top_locations and top_keywords of the combination of
\* the Summaries of two batches are the ranking, with the same counts, of the
\* summed full location and keyword tallies of the two batches: no name among
\* the 5 (10) highest by summed count is missing or under-counted.
C29_TopOfSummedTallies ==
    BothCombined =>
        /\ IsRankingOf(ListedLocations(result), SummedCities, 5)
        /\ IsRankingOf(ListedKeywords(result), SummedKeywords, 10)

\* C29 (amended): the combined top_locations and top_keywords are the ranking
\* of the sums of the counts the two Summaries list, ties in the order of the
\* lists; a combined count never exceeds the summed full count and equals it
\* for a name no platform cut from its own list; when no platform's tally
\* exceeds 5 locations (10 keywords) the combined list is the ranking of the
\* summed full tallies.
C29_TopOfSummedLists ==
    BothCombined =>
        LET tw == FullTallies("twitter")
            ig == FullTallies("instagram")
            locations == ListedLocations(result)
            keywords == ListedKeywords(result)
            listed_locations == SumTallies(ListedLocations(results.twitter),
                                           ListedLocations(results.instagram))
            listed_keywords == SumTallies(ListedKeywords(results.twitter),
                                          ListedKeywords(results.instagram))
        IN  /\ IsTopOf(locations, listed_locations, 5)
            /\ IsTopOf(keywords, listed_keywords, 10)
            /\ \A k \in DOMAIN locations :
                  /\ locations[k].count <= CountIn(SummedCities, locations[k].key)
                  /\ (/\ CountIn(ListedLocations(results.twitter), locations[k].key)
                           = CountIn(tw.city_counter, locations[k].key)
                      /\ CountIn(ListedLocations(results.instagram), locations[k].key)
                           = CountIn(ig.city_counter, locations[k].key))
                        => locations[k].count = CountIn(SummedCities, locations[k].key)
            /\ \A k \in DOMAIN keywords :
                  /\ keywords[k].count <= CountIn(SummedKeywords, keywords[k].key)
                  /\ (/\ CountIn(ListedKeywords(results.twitter), keywords[k].key)
                           = CountIn(tw.keywords_counter, keywords[k].key)
                      /\ CountIn(ListedKeywords(results.instagram), keywords[k].key)
                           = CountIn(ig.keywords_counter, keywords[k].key))
                        => keywords[k].count = CountIn(SummedKeywords, keywords[k].key)
            /\ (Len(tw.city_counter) <= 5 /\ Len(ig.city_counter) <= 5)
                  => IsRankingOf(locations, SummedCities, 5)
            /\ (Len(tw.keywords_counter) <= 10 /\ Len(ig.keywords_counter) <= 10)
                  => IsRankingOf(keywords, SummedKeywords, 10)

\* a location that one platform cut from its own list is among the summed
\* tallies' highest and missing from the combined list
C29_Witness ==
    /\ BothCombined
    /\ Len(FullTallies("twitter").city_counter) > 5
    /\ \E b \in DOMAIN SummedCities :
          /\ SummedCities[b].count = 2
          /\ CountIn(ListedLocations(result), SummedCities[b].key) = 0
          /\ \E k \in DOMAIN result.top_locations :
                result.top_locations[k].total_mentions = 1

\* no tally was cut and a name of both platforms carries the sum of its counts
C29_WitnessUncut ==
    /\ BothCombined
    /\ Len(FullTallies("twitter").city_counter) \in 1..5
    /\ Len(FullTallies("twitter").keywords_counter) \in 1..10
    /\ \E k \in DOMAIN result.top_locations :
          /\ result.top_locations[k].total_mentions = 2
          /\ CountIn(FullTallies("twitter").city_counter,
                     result.top_locations[k].location_name) = 1
          /\ CountIn(FullTallies("instagram").city_counter,
                     result.top_locations[k].location_name) = 1

\* ------------------------------------------------------------------ C30
\* s is one word of letters, longer than 2 characters, that is itself no
\* locale prefix of the list and no key of the alias table
OneWordName(s, prefixes) ==
    /\ Len(s) > 2
    /\ \A i \in DOMAIN s : IsLetter(s[i])
    /\ \A i \in DOMAIN prefixes : LowerStr(s) # prefixes[i]
    /\ ~HasAlias(LowerStr(s))

\* C30: both location extractors strip a locale prefix only when it is a whole
\* leading word: a one-word location that merely begins with the letters of a
\* prefix ('Indonesia', 'Atlanta', 'Dili') is returned as that same word
\* title-cased, as every other one-word location is.
C30_PrefixIsWholeWord ==
    GeoTagDone =>
        /\ (remote.twitter.places[1].country = "Indonesia"
             /\ OneWordName(LocationInput, IndonesianPrefixes))
               => CountedCity = Title(LocationInput)
        /\ (remote.twitter.places[1].country # "Indonesia"
             /\ OneWordName(LocationInput, GenericPrefixes))
               => CountedCity = Title(LocationInput)

====
